---------------------------- MODULE Spec2Model ----------------------------
(***************************************************************************)
(* A model of the QML semantic checker (QmlJS::Check, its AssignmentCheck  *)
(* value visitor, the scope-object member resolver and QmlJS::toQColor).   *)
(*                                                                         *)
(* QStrings are sequences of one-character strings, so that size(), at(),  *)
(* mid(), right() and the character classes are computed, not assumed.     *)
(***************************************************************************)
EXTENDS Integers, Sequences, FiniteSets, TLC

(***************************************************************************)
(* Bounds of the model.                                                    *)
(***************************************************************************)
\* longest colour string handed to toQColor
MaxColorLen == 9
\* most nodes a generated document holds
MaxNodes == 3
\* most runs of one Check instance
MaxRuns == 2
\* most scope objects of a scope chain handed straight to the resolver
MaxScope == 2
\* most segments of a qualified id handed straight to the resolver
MaxSegments == 3

(***************************************************************************)
(* QChar / QString helpers.                                                *)
(***************************************************************************)
LowerChars == {"a", "b", "c", "d", "e", "f", "g", "i", "k", "l", "n", "o", "r", "s", "u", "x"}
UpperChars == {"A", "B", "C", "D", "E", "F", "I", "K", "N", "T"}

isLower(c) == c \in LowerChars
isUpper(c) == c \in UpperChars
isSpace(c) == c = " "

HexDigitString == <<"0", "1", "2", "3", "4", "5", "6", "7", "8", "9",
                    "a", "b", "c", "d", "e", "f">>
HexUpperString == <<"0", "1", "2", "3", "4", "5", "6", "7", "8", "9",
                    "A", "B", "C", "D", "E", "F">>

isHexDigit(c) == \E i \in 1..16 : HexDigitString[i] = c \/ HexUpperString[i] = c

\* h2i: the value of one hexadecimal digit
h2i(c) == (CHOOSE i \in 1..16 : HexDigitString[i] = c \/ HexUpperString[i] = c) - 1

\* QString::mid(position, n): 0-based position, at most n characters
mid(s, position, n) ==
    IF position >= Len(s) THEN <<>>
    ELSE SubSeq(s, position + 1, IF position + n > Len(s) THEN Len(s) ELSE position + n)

\* QString::right(n): the n rightmost characters
right(s, n) == IF n >= Len(s) THEN s ELSE SubSeq(s, Len(s) - n + 1, Len(s))

RECURSIVE trimLeft(_)
trimLeft(s) == IF s # <<>> /\ isSpace(Head(s)) THEN trimLeft(Tail(s)) ELSE s

RECURSIVE trimRight(_)
trimRight(s) ==
    IF s # <<>> /\ isSpace(s[Len(s)]) THEN trimRight(SubSeq(s, 1, Len(s) - 1)) ELSE s

RECURSIVE hexValue(_, _)
hexValue(digits, acc) ==
    IF digits = <<>> THEN acc ELSE hexValue(Tail(digits), 16 * acc + h2i(Head(digits)))

(***************************************************************************)
(* QString::toInt(&ok, 16), as the C locale parses it: white space around  *)
(* the number is skipped, one sign is accepted, and what remains must be   *)
(* one or more hexadecimal digits.  (A "0x" prefix needs a digit after it, *)
(* which the two characters toQColor passes cannot hold.)                  *)
(***************************************************************************)
toInt16(s) ==
    LET t       == trimRight(trimLeft(s))
        signed  == t # <<>> /\ Head(t) \in {"+", "-"}
        digits  == IF signed THEN Tail(t) ELSE t
        ok      == digits # <<>> /\ \A i \in 1..Len(digits) : isHexDigit(digits[i])
        abs     == IF ok THEN hexValue(digits, 0) ELSE 0
    IN  [ok |-> ok, value |-> IF signed /\ Head(t) = "-" THEN 0 - abs ELSE abs]

(***************************************************************************)
(* QColor.  A colour is [valid, rgb, alpha]; QColor() is invalid.          *)
(***************************************************************************)
InvalidColor == [valid |-> FALSE, rgb |-> <<0, 0, 0>>, alpha |-> 255]

\* the colour names of the SVG table that the model's alphabet can spell
NamedColorRgb(name) ==
    CASE name = <<"r", "e", "d">> -> <<255, 0, 0>>
      [] OTHER -> <<>>

hex2(s, i) == 16 * h2i(s[i]) + h2i(s[i + 1])
hex1(s, i) == 16 * h2i(s[i]) + h2i(s[i])

\* qt_get_hex_rgb on the digits after '#': 3, 6, 9 or 12 hexadecimal digits
hexRgb(d) ==
    IF ~(\A i \in 1..Len(d) : isHexDigit(d[i])) THEN <<>>
    ELSE CASE Len(d) = 12 -> <<hex2(d, 1), hex2(d, 5), hex2(d, 9)>>
           [] Len(d) = 9  -> <<hex2(d, 1), hex2(d, 4), hex2(d, 7)>>
           [] Len(d) = 6  -> <<hex2(d, 1), hex2(d, 3), hex2(d, 5)>>
           [] Len(d) = 3  -> <<hex1(d, 1), hex1(d, 2), hex1(d, 3)>>
           [] OTHER       -> <<>>

\* the red, green and blue a colour name stands for, <<>> when it is no colour
colorFromString(name) ==
    IF name = <<>> THEN <<>>
    ELSE IF Head(name) = "#" THEN hexRgb(Tail(name))
    ELSE NamedColorRgb(name)

\* QColor::isValidColor
isValidColor(name) == colorFromString(name) # <<>>

\* QColor::setNamedColor on a default-constructed colour
setNamedColor(name) ==
    IF isValidColor(name)
    THEN [valid |-> TRUE, rgb |-> colorFromString(name), alpha |-> 255]
    ELSE InvalidColor

\* QColor::setAlpha: a value outside 0..255 is clamped into the range
setAlpha(color, alpha) ==
    [color EXCEPT !.alpha = IF alpha < 0 THEN 0 ELSE IF alpha > 255 THEN 255 ELSE alpha]

(***************************************************************************)
(* QmlJS::toQColor.                                                        *)
(***************************************************************************)
\* toQColor without the last branch: only the 9-character form gives a colour
toQColor_AlphaFormOnly(qmlColorString) ==
    IF Len(qmlColorString) = 9 /\ qmlColorString[1] = "#"
    THEN LET alpha == toInt16(mid(qmlColorString, 1, 2))
             name  == <<qmlColorString[1]>> \o right(qmlColorString, 6)
         IN  IF alpha.ok /\ isValidColor(name)
             THEN setAlpha(setNamedColor(name), alpha.value)
             ELSE InvalidColor
    ELSE InvalidColor

toQColor(qmlColorString) ==
    IF Len(qmlColorString) = 9 /\ qmlColorString[1] = "#"
    THEN LET alpha == toInt16(mid(qmlColorString, 1, 2))
             name  == <<qmlColorString[1]>> \o right(qmlColorString, 6)
         IN  IF alpha.ok /\ isValidColor(name)
             THEN setAlpha(setNamedColor(name), alpha.value)
             ELSE InvalidColor
    ELSE IF isValidColor(qmlColorString)
         THEN setNamedColor(qmlColorString)
         ELSE InvalidColor

(***************************************************************************)
(* SourceLocation and DiagnosticMessage.                                   *)
(***************************************************************************)
SourceLocation(offset, length, line, column) ==
    [offset |-> offset, length |-> length, startLine |-> line, startColumn |-> column]

begin(loc) == loc.offset
end(loc)   == loc.offset + loc.length

locationFromRange(start, stop) ==
    SourceLocation(start.offset, end(stop) - begin(start), start.startLine, start.startColumn)

\* a message is the translated text and the arguments put into it with arg()
DiagnosticMessage(kind, loc, message, args) ==
    [kind |-> kind, loc |-> loc, message |-> message, args |-> args]

errorMessage(loc, message, args) == DiagnosticMessage("Error", loc, message, args)
warningMessage(loc, message, args) == DiagnosticMessage("Warning", loc, message, args)

(***************************************************************************)
(* Interpreter values.  NoValue is the null Value pointer.                 *)
(***************************************************************************)
Value(k)        == [k |-> k, obj |-> "", keys |-> {}]
NoValue         == Value("none")
NumberValue     == Value("Number")
BooleanValue    == Value("Boolean")
StringValue     == Value("String")
UrlValue        == Value("Url")
ColorValue      == Value("Color")
AnchorLineValue == Value("AnchorLine")
UndefinedValue  == Value("Undefined")
QmlEnumValue(keys) == [k |-> "Enum", obj |-> "", keys |-> keys]
ObjectValue(obj)   == [k |-> "Object", obj |-> obj, keys |-> {}]

asNumberValue(v)     == v.k \in {"Number", "Enum"}
asStringValue(v)     == v.k \in {"String", "Url"}
asUrlValue(v)        == v.k = "Url"
asUndefinedValue(v)  == v.k = "Undefined"
asAnchorLineValue(v) == v.k = "AnchorLine"
asObjectValue(v)     == v.k = "Object"

(***************************************************************************)
(* The type model the documents are checked against: a few objects and     *)
(* their members.  Names are QStrings.                                     *)
(***************************************************************************)
N_id  == <<"i", "d">>
N_x   == <<"x">>
N_e   == <<"e">>
N_b   == <<"b">>
N_s   == <<"s">>
N_u   == <<"u">>
N_c   == <<"c">>
N_l   == <<"l">>
N_o   == <<"o">>
N_n   == <<"n">>
N_K   == <<"K">>
N_N   == <<"N">>
N_Item == <<"I", "t", "e", "m">>
N_Foo  == <<"F", "o", "o">>

EnumKeys == {<<"k">>}

NoObject == ""

\* ObjectValue::lookupMember, NoValue when the object has no such member
lookupMember(obj, name) ==
    CASE obj = "Item" ->
           (CASE name = N_x -> NumberValue
              [] name = N_e -> QmlEnumValue(EnumKeys)
              [] name = N_b -> BooleanValue
              [] name = N_s -> StringValue
              [] name = N_u -> UrlValue
              [] name = N_c -> ColorValue
              [] name = N_l -> AnchorLineValue
              [] name = N_o -> ObjectValue("Anchors")
              [] OTHER -> NoValue)
      [] obj = "Anchors" ->
           (CASE name = N_l -> AnchorLineValue
              [] name = N_x -> NumberValue
              [] name = N_o -> ObjectValue("Anchors")
              [] OTHER -> NoValue)
      [] obj = "Other" ->
           (CASE name = N_x -> StringValue
              [] name = N_n -> NumberValue
              [] name = N_K -> BooleanValue
              [] OTHER -> NoValue)
      [] obj = "Types" ->
           (CASE name = N_K -> ObjectValue("Keys")
              [] OTHER -> NoValue)
      [] OTHER -> NoValue

\* ObjectValue::className
className(obj) == obj

\* Context::lookupType: the object a type name stands for, NoObject when unknown
lookupType(typeId) ==
    IF Len(typeId) = 1 /\ typeId[1].named /\ typeId[1].name = N_Item THEN "Item"
    ELSE NoObject

(***************************************************************************)
(* The syntax tree.  A UiQualifiedId is the sequence of its segments, a    *)
(* segment [named, name]: named is FALSE when the NameId pointer is null   *)
(* (the parser's error recovery inserts such identifiers).  <<>> is the    *)
(* null UiQualifiedId pointer.                                             *)
(***************************************************************************)
Seg(name) == [named |-> TRUE, name |-> name]
NoName    == [named |-> FALSE, name |-> <<>>]

\* Where the tokens of the node on a line stand: the qualified id starts at
\* column 1, the type name at column 30, the statement spans columns 60..68.
\* identifierToken of segment k of a qualified id that starts at column col
identifierToken(id, k, line, col) ==
    SourceLocation(100 * line + col + 8 * (k - 1), Len(id[k].name), line, col + 8 * (k - 1))

firstSourceLocation(line) == SourceLocation(100 * line + 60, 1, line, 60)
lastSourceLocation(line)  == SourceLocation(100 * line + 68, 1, line, 68)

(***************************************************************************)
(* Check::checkScopeObjectMember.  The result is the value returned and    *)
(* the diagnostics the call appends to _messages.                          *)
(***************************************************************************)
Resolved(value, msgs) == [value |-> value, msgs |-> msgs]

\* the loop over scopeObjects, last to first: the first member found
RECURSIVE globalLookup(_, _)

\* the loop run first to last
globalLookup_FirstToLast(scopeObjects, propertyName) ==
    IF scopeObjects = <<>> THEN NoValue
    ELSE LET value == lookupMember(scopeObjects[1], propertyName)
         IN  IF value # NoValue THEN value
             ELSE globalLookup(Tail(scopeObjects), propertyName)

globalLookup(scopeObjects, propertyName) ==
    IF scopeObjects = <<>> THEN NoValue
    ELSE LET value == lookupMember(scopeObjects[Len(scopeObjects)], propertyName)
         IN  IF value # NoValue THEN value
             ELSE globalLookup(SubSeq(scopeObjects, 1, Len(scopeObjects) - 1), propertyName)

\* the member lookup loop, idPart at segment i, value found for propertyName
RECURSIVE memberLookup(_, _, _, _, _, _, _)

\* the loop with the test for a missing name ahead of the test for an object
memberLookup_NameTestFirst(id, i, value, propertyName, msgs, line, col) ==
    IF i = Len(id) THEN Resolved(value, msgs)
    ELSE IF ~id[i + 1].named
    THEN Resolved(NoValue, msgs)
    ELSE IF ~asObjectValue(value)
    THEN Resolved(NoValue,
                  Append(msgs, errorMessage(identifierToken(id, i, line, col),
                                            "'%1' does not have members", <<propertyName>>)))
    ELSE LET name   == id[i + 1].name
             member == lookupMember(value.obj, name)
         IN  IF member = NoValue
             THEN Resolved(NoValue,
                           Append(msgs, errorMessage(identifierToken(id, i + 1, line, col),
                                                     "'%1' is not a member of '%2'",
                                                     <<name, className(value.obj)>>)))
             ELSE memberLookup(id, i + 1, member, name, msgs, line, col)

memberLookup(id, i, value, propertyName, msgs, line, col) ==
    IF i = Len(id) THEN Resolved(value, msgs)
    ELSE IF ~asObjectValue(value)
    THEN Resolved(NoValue,
                  Append(msgs, errorMessage(identifierToken(id, i, line, col),
                                            "'%1' does not have members", <<propertyName>>)))
    ELSE IF ~id[i + 1].named
    THEN Resolved(NoValue, msgs)
    ELSE LET name   == id[i + 1].name
             member == lookupMember(value.obj, name)
         IN  IF member = NoValue
             THEN Resolved(NoValue,
                           Append(msgs, errorMessage(identifierToken(id, i + 1, line, col),
                                                     "'%1' is not a member of '%2'",
                                                     <<name, className(value.obj)>>)))
             ELSE memberLookup(id, i + 1, member, name, msgs, line, col)

\* checkScopeObjectMember going on to the member lookup for attached properties too
checkScopeObjectMember_MembersOfAttached(qmlScopeObjects, qmlTypes, id, line, col) ==
    IF qmlScopeObjects = <<>> THEN Resolved(NoValue, <<>>)
    ELSE IF id = <<>> THEN Resolved(NoValue, <<>>)
    ELSE IF ~id[1].named THEN Resolved(NoValue, <<>>)
    ELSE LET propertyName == id[1].name
         IN  IF propertyName = N_id /\ Len(id) = 1 THEN Resolved(NoValue, <<>>) ELSE
             LET isAttachedProperty == propertyName # <<>> /\ isUpper(propertyName[1])
                      scopeObjects ==
                          IF isAttachedProperty /\ qmlTypes # NoObject
                          THEN Append(qmlScopeObjects, qmlTypes)
                          ELSE qmlScopeObjects
                      value == globalLookup(scopeObjects, propertyName)
                      msgs  == IF value = NoValue
                               THEN <<errorMessage(identifierToken(id, 1, line, col),
                                                   "'%1' is not a valid property name",
                                                   <<propertyName>>)>>
                               ELSE <<>>
                  IN  memberLookup(id, 1, value, propertyName, msgs, line, col)

\* checkScopeObjectMember without the special case for the lone id
checkScopeObjectMember_NoIdCase(qmlScopeObjects, qmlTypes, id, line, col) ==
    IF qmlScopeObjects = <<>> THEN Resolved(NoValue, <<>>)
    ELSE IF id = <<>> THEN Resolved(NoValue, <<>>)
    ELSE IF ~id[1].named THEN Resolved(NoValue, <<>>)
    ELSE LET propertyName == id[1].name
         IN  
             LET isAttachedProperty == propertyName # <<>> /\ isUpper(propertyName[1])
                      scopeObjects ==
                          IF isAttachedProperty /\ qmlTypes # NoObject
                          THEN Append(qmlScopeObjects, qmlTypes)
                          ELSE qmlScopeObjects
                      value == globalLookup(scopeObjects, propertyName)
                      msgs  == IF value = NoValue
                               THEN <<errorMessage(identifierToken(id, 1, line, col),
                                                   "'%1' is not a valid property name",
                                                   <<propertyName>>)>>
                               ELSE <<>>
                  IN  IF isAttachedProperty THEN Resolved(NoValue, msgs)
                      ELSE memberLookup(id, 1, value, propertyName, msgs, line, col)

checkScopeObjectMember(qmlScopeObjects, qmlTypes, id, line, col) ==
    IF qmlScopeObjects = <<>> THEN Resolved(NoValue, <<>>)
    ELSE IF id = <<>> THEN Resolved(NoValue, <<>>)
    ELSE IF ~id[1].named THEN Resolved(NoValue, <<>>)
    ELSE LET propertyName == id[1].name
         IN  IF propertyName = N_id /\ Len(id) = 1 THEN Resolved(NoValue, <<>>)
             ELSE LET isAttachedProperty == propertyName # <<>> /\ isUpper(propertyName[1])
                      scopeObjects ==
                          IF isAttachedProperty /\ qmlTypes # NoObject
                          THEN Append(qmlScopeObjects, qmlTypes)
                          ELSE qmlScopeObjects
                      value == globalLookup(scopeObjects, propertyName)
                      msgs  == IF value = NoValue
                               THEN <<errorMessage(identifierToken(id, 1, line, col),
                                                   "'%1' is not a valid property name",
                                                   <<propertyName>>)>>
                               ELSE <<>>
                  IN  IF isAttachedProperty THEN Resolved(NoValue, msgs)
                      ELSE memberLookup(id, 1, value, propertyName, msgs, line, col)

(***************************************************************************)
(* Expressions and statements.  An expression is [kind, text, named,       *)
(* operand, url]: text is an identifier's name or a string literal's       *)
(* value, named is FALSE for an identifier whose name is null, operand is  *)
(* the kind of a unary minus's operand, url says what QUrl and the file    *)
(* system make of a string literal.                                        *)
(***************************************************************************)
Expr(kind, text) ==
    [kind |-> kind, text |-> text, named |-> TRUE, operand |-> "", url |-> "none"]

\* the message AssignmentCheck returns, and whether it read a null _rhsValue
Checked(message, fault) == [message |-> message, fault |-> fault]

\* the visit for a StringValue checking the url whatever the value is
visitStringValue_UrlForAnyString(valueKind, ast, message) ==
    LET m1 == IF \/ ast.kind = "NumericLiteral"
                 \/ (ast.kind = "UnaryMinusExpression" /\ ast.operand = "NumericLiteral")
                 \/ ast.kind = "TrueLiteral"
                 \/ ast.kind = "FalseLiteral"
              THEN [message EXCEPT !.message = "string value expected"]
              ELSE message
    IN  IF ast.kind = "StringLiteral"
        THEN IF ast.url = "invalid" /\ ast.text # <<>>
             THEN [m1 EXCEPT !.message = "not a valid url"]
             ELSE IF ast.url = "missing"
                  THEN [m1 EXCEPT !.message = "file or directory does not exist"]
                  ELSE m1
        ELSE m1

\* AssignmentCheck::visit for a StringValue: value is "Url", "String" or
\* "null" (the colour rule calls it with a null StringValue)
visitStringValue(valueKind, ast, message) ==
    LET m1 == IF \/ ast.kind = "NumericLiteral"
                 \/ (ast.kind = "UnaryMinusExpression" /\ ast.operand = "NumericLiteral")
                 \/ ast.kind = "TrueLiteral"
                 \/ ast.kind = "FalseLiteral"
              THEN [message EXCEPT !.message = "string value expected"]
              ELSE message
    IN  IF valueKind = "Url" /\ ast.kind = "StringLiteral"
        THEN IF ast.url = "invalid" /\ ast.text # <<>>
             THEN [m1 EXCEPT !.message = "not a valid url"]
             ELSE IF ast.url = "missing"
                  THEN [m1 EXCEPT !.message = "file or directory does not exist"]
                  ELSE m1
        ELSE m1

\* AssignmentCheck going on to the rule for plain numbers when an enum passes
AssignmentCheck_EnumAsNumber(location, lhsValue, rhsValue, ast) ==
    LET message == DiagnosticMessage("Error", location, "", <<>>)
    IN  CASE lhsValue.k = "Enum" ->
               IF ast.kind = "StringLiteral"
               THEN IF ast.text \notin lhsValue.keys
                    THEN Checked([message EXCEPT !.message = "unknown value for enum"], FALSE)
                    ELSE Checked(message, FALSE)
               ELSE IF rhsValue = NoValue THEN Checked(message, TRUE)
               ELSE IF asUndefinedValue(rhsValue)
               THEN Checked([message EXCEPT !.kind = "Warning",
                                            !.message = "value might be 'undefined'"], FALSE)
               ELSE IF ~asStringValue(rhsValue) /\ ~asNumberValue(rhsValue)
               THEN Checked([message EXCEPT !.message = "enum value is not a string or number"],
                            FALSE)
               ELSE IF ast.kind = "TrueLiteral" \/ ast.kind = "FalseLiteral"
               THEN Checked([message EXCEPT !.message = "numerical value expected"], FALSE)
               ELSE Checked(message, FALSE)
          [] lhsValue.k = "Number" ->
               IF ast.kind = "TrueLiteral" \/ ast.kind = "FalseLiteral"
               THEN Checked([message EXCEPT !.message = "numerical value expected"], FALSE)
               ELSE Checked(message, FALSE)
          [] lhsValue.k = "Boolean" ->
               IF \/ ast.kind = "StringLiteral"
                  \/ ast.kind = "NumericLiteral"
                  \/ (ast.kind = "UnaryMinusExpression" /\ ast.operand = "NumericLiteral")
               THEN Checked([message EXCEPT !.message = "boolean value expected"], FALSE)
               ELSE Checked(message, FALSE)
          [] lhsValue.k \in {"String", "Url"} ->
               Checked(visitStringValue(lhsValue.k, ast, message), FALSE)
          [] lhsValue.k = "Color" ->
               IF ast.kind = "StringLiteral"
               THEN IF ~toQColor(ast.text).valid
                    THEN Checked([message EXCEPT !.message = "not a valid color"], FALSE)
                    ELSE Checked(message, FALSE)
               ELSE Checked(visitStringValue("null", ast, message), FALSE)
          [] lhsValue.k = "AnchorLine" ->
               IF rhsValue = NoValue THEN Checked(message, TRUE)
               ELSE IF ~(asAnchorLineValue(rhsValue) \/ asUndefinedValue(rhsValue))
               THEN Checked([message EXCEPT !.message = "expected anchor line"], FALSE)
               ELSE Checked(message, FALSE)
          [] OTHER -> Checked(message, FALSE)

\* AssignmentCheck going on to the checks of a url for a valid colour
AssignmentCheck_ColorAsUrl(location, lhsValue, rhsValue, ast) ==
    LET message == DiagnosticMessage("Error", location, "", <<>>)
    IN  CASE lhsValue.k = "Enum" ->
               IF ast.kind = "StringLiteral"
               THEN IF ast.text \notin lhsValue.keys
                    THEN Checked([message EXCEPT !.message = "unknown value for enum"], FALSE)
                    ELSE Checked(message, FALSE)
               ELSE IF rhsValue = NoValue THEN Checked(message, TRUE)
               ELSE IF asUndefinedValue(rhsValue)
               THEN Checked([message EXCEPT !.kind = "Warning",
                                            !.message = "value might be 'undefined'"], FALSE)
               ELSE IF ~asStringValue(rhsValue) /\ ~asNumberValue(rhsValue)
               THEN Checked([message EXCEPT !.message = "enum value is not a string or number"],
                            FALSE)
               ELSE Checked(message, FALSE)
          [] lhsValue.k = "Number" ->
               IF ast.kind = "TrueLiteral" \/ ast.kind = "FalseLiteral"
               THEN Checked([message EXCEPT !.message = "numerical value expected"], FALSE)
               ELSE Checked(message, FALSE)
          [] lhsValue.k = "Boolean" ->
               IF \/ ast.kind = "StringLiteral"
                  \/ ast.kind = "NumericLiteral"
                  \/ (ast.kind = "UnaryMinusExpression" /\ ast.operand = "NumericLiteral")
               THEN Checked([message EXCEPT !.message = "boolean value expected"], FALSE)
               ELSE Checked(message, FALSE)
          [] lhsValue.k \in {"String", "Url"} ->
               Checked(visitStringValue(lhsValue.k, ast, message), FALSE)
          [] lhsValue.k = "Color" ->
               IF ast.kind = "StringLiteral"
               THEN IF ~toQColor(ast.text).valid
                    THEN Checked([message EXCEPT !.message = "not a valid color"], FALSE)
                    ELSE Checked(visitStringValue("Url", ast, message), FALSE)
               ELSE Checked(visitStringValue("null", ast, message), FALSE)
          [] lhsValue.k = "AnchorLine" ->
               IF rhsValue = NoValue THEN Checked(message, TRUE)
               ELSE IF ~(asAnchorLineValue(rhsValue) \/ asUndefinedValue(rhsValue))
               THEN Checked([message EXCEPT !.message = "expected anchor line"], FALSE)
               ELSE Checked(message, FALSE)
          [] OTHER -> Checked(message, FALSE)

\* AssignmentCheck::operator() and the visit function lhsValue->accept picks
AssignmentCheck(location, lhsValue, rhsValue, ast) ==
    LET message == DiagnosticMessage("Error", location, "", <<>>)
    IN  CASE lhsValue.k = "Enum" ->
               IF ast.kind = "StringLiteral"
               THEN IF ast.text \notin lhsValue.keys
                    THEN Checked([message EXCEPT !.message = "unknown value for enum"], FALSE)
                    ELSE Checked(message, FALSE)
               ELSE IF rhsValue = NoValue THEN Checked(message, TRUE)
               ELSE IF asUndefinedValue(rhsValue)
               THEN Checked([message EXCEPT !.kind = "Warning",
                                            !.message = "value might be 'undefined'"], FALSE)
               ELSE IF ~asStringValue(rhsValue) /\ ~asNumberValue(rhsValue)
               THEN Checked([message EXCEPT !.message = "enum value is not a string or number"],
                            FALSE)
               ELSE Checked(message, FALSE)
          [] lhsValue.k = "Number" ->
               IF ast.kind = "TrueLiteral" \/ ast.kind = "FalseLiteral"
               THEN Checked([message EXCEPT !.message = "numerical value expected"], FALSE)
               ELSE Checked(message, FALSE)
          [] lhsValue.k = "Boolean" ->
               IF \/ ast.kind = "StringLiteral"
                  \/ ast.kind = "NumericLiteral"
                  \/ (ast.kind = "UnaryMinusExpression" /\ ast.operand = "NumericLiteral")
               THEN Checked([message EXCEPT !.message = "boolean value expected"], FALSE)
               ELSE Checked(message, FALSE)
          [] lhsValue.k \in {"String", "Url"} ->
               Checked(visitStringValue(lhsValue.k, ast, message), FALSE)
          [] lhsValue.k = "Color" ->
               IF ast.kind = "StringLiteral"
               THEN IF ~toQColor(ast.text).valid
                    THEN Checked([message EXCEPT !.message = "not a valid color"], FALSE)
                    ELSE Checked(message, FALSE)
               ELSE Checked(visitStringValue("null", ast, message), FALSE)
          [] lhsValue.k = "AnchorLine" ->
               IF rhsValue = NoValue THEN Checked(message, TRUE)
               ELSE IF ~(asAnchorLineValue(rhsValue) \/ asUndefinedValue(rhsValue))
               THEN Checked([message EXCEPT !.message = "expected anchor line"], FALSE)
               ELSE Checked(message, FALSE)
          [] OTHER -> Checked(message, FALSE)

(***************************************************************************)
(* Nodes of the tree the checker walks: [kind, qid, typeId, stmt, members, *)
(* formals].  members are the children the traversal descends into: an     *)
(* object's or array binding's members, the functions inside a script      *)
(* binding's statement, the functions inside a function's body.            *)
(***************************************************************************)
NoExpr == [kind |-> "none", text |-> <<>>, named |-> TRUE, operand |-> "", url |-> "none"]
NoStmt == [kind |-> "none", expr |-> NoExpr, rhs |-> NoValue]

\* an ExpressionStatement and the value Evaluate returns for its expression
ExpressionStatement(expr, rhs) == [kind |-> "ExpressionStatement", expr |-> expr, rhs |-> rhs]
Block == [kind |-> "Block", expr |-> NoExpr, rhs |-> NoValue]

Node(kind, qid, typeId, stmt, members, formals) ==
    [kind |-> kind, qid |-> qid, typeId |-> typeId, stmt |-> stmt,
     members |-> members, formals |-> formals]

UiObjectDefinition(typeId, members) ==
    Node("UiObjectDefinition", <<>>, typeId, NoStmt, members, 0)
UiObjectBinding(qid, typeId, members) ==
    Node("UiObjectBinding", qid, typeId, NoStmt, members, 0)
UiScriptBinding(qid, stmt, functions) ==
    Node("UiScriptBinding", qid, <<>>, stmt, functions, 0)
UiArrayBinding(qid, members) ==
    Node("UiArrayBinding", qid, <<>>, NoStmt, members, 0)
Function(kind, formals, body) ==
    Node(kind, <<>>, <<>>, NoStmt, body, formals)

NoNode == Node("none", <<>>, <<>>, NoStmt, <<>>, 0)

(***************************************************************************)
(* Check::visit for a UiScriptBinding.  The result is the diagnostics the  *)
(* call appends, the value it returns (TRUE: the traversal descends into   *)
(* the binding's children), whether it dereferenced a null pointer, and    *)
(* whether it called AssignmentCheck.                                      *)
(***************************************************************************)
Visited(msgs, ret)  == [msgs |-> msgs, ret |-> ret, fault |-> FALSE, assigned |-> FALSE]
Faulted(msgs)       == [msgs |-> msgs, ret |-> FALSE, fault |-> TRUE, assigned |-> FALSE]
Assigned(visited)   == [visited EXCEPT !.assigned = TRUE]

statementRange(line) == locationFromRange(firstSourceLocation(line), lastSourceLocation(line))

\* lines 296-315 without the test for an empty message
checkBinding_AnyMessage(ast, msgs, qmlScopeObjects, qmlTypes, line) ==
    LET resolved == checkScopeObjectMember(qmlScopeObjects, qmlTypes, ast.qid, line, 1)
        lhsValue == resolved.value
    IN  IF lhsValue # NoValue /\ ast.stmt.kind = "ExpressionStatement"
        THEN LET checked == AssignmentCheck(statementRange(line), lhsValue,
                                            ast.stmt.rhs, ast.stmt.expr)
             IN  IF checked.fault THEN Assigned(Faulted(msgs \o resolved.msgs))
                 ELSE Assigned(Visited(msgs \o resolved.msgs \o <<checked.message>>, TRUE))
        ELSE Visited(msgs \o resolved.msgs, TRUE)

\* lines 296-315 returning false when the assignment got a diagnostic
checkBinding_StopsOnDiagnostic(ast, msgs, qmlScopeObjects, qmlTypes, line) ==
    LET resolved == checkScopeObjectMember(qmlScopeObjects, qmlTypes, ast.qid, line, 1)
        lhsValue == resolved.value
    IN  IF lhsValue # NoValue /\ ast.stmt.kind = "ExpressionStatement"
        THEN LET checked == AssignmentCheck(statementRange(line), lhsValue,
                                            ast.stmt.rhs, ast.stmt.expr)
             IN  IF checked.fault THEN Assigned(Faulted(msgs \o resolved.msgs))
                 ELSE IF checked.message.message # ""
                 THEN Assigned(Visited(msgs \o resolved.msgs \o <<checked.message>>, FALSE))
                 ELSE Assigned(Visited(msgs \o resolved.msgs, TRUE))
        ELSE Visited(msgs \o resolved.msgs, TRUE)

\* lines 296-315: resolve the property, check the assignment
checkBinding(ast, msgs, qmlScopeObjects, qmlTypes, line) ==
    LET resolved == checkScopeObjectMember(qmlScopeObjects, qmlTypes, ast.qid, line, 1)
        lhsValue == resolved.value
    IN  IF lhsValue # NoValue /\ ast.stmt.kind = "ExpressionStatement"
        THEN LET checked == AssignmentCheck(statementRange(line), lhsValue,
                                            ast.stmt.rhs, ast.stmt.expr)
             IN  IF checked.fault THEN Assigned(Faulted(msgs \o resolved.msgs))
                 ELSE IF checked.message.message # ""
                 THEN Assigned(Visited(msgs \o resolved.msgs \o <<checked.message>>, TRUE))
                 ELSE Assigned(Visited(msgs \o resolved.msgs, TRUE))
        ELSE Visited(msgs \o resolved.msgs, TRUE)

\* lines 290-293 testing for an upper-case letter only
checkIdText_UpperOnly(ast, id, msgs, qmlScopeObjects, qmlTypes, line) ==
    IF id # <<>> /\ isUpper(id[1])
    THEN Visited(Append(msgs, errorMessage(statementRange(line), "ids must be lower case", <<>>)),
                 FALSE)
    ELSE checkBinding(ast, msgs, qmlScopeObjects, qmlTypes, line)

\* lines 290-293, then the rest of the function
checkIdText(ast, id, msgs, qmlScopeObjects, qmlTypes, line) ==
    IF id = <<>> \/ ~isLower(id[1])
    THEN Visited(Append(msgs, errorMessage(statementRange(line), "ids must be lower case", <<>>)),
                 FALSE)
    ELSE checkBinding(ast, msgs, qmlScopeObjects, qmlTypes, line)

visitUiScriptBinding(ast, qmlScopeObjects, qmlTypes, line) ==
    IF ~ast.qid[1].named THEN Faulted(<<>>)
    ELSE IF ast.qid[1].name = N_id /\ Len(ast.qid) = 1
    THEN IF ast.stmt.kind = "none" THEN Visited(<<>>, FALSE)
         ELSE IF ast.stmt.kind # "ExpressionStatement"
         THEN Visited(<<errorMessage(statementRange(line), "expected id", <<>>)>>, FALSE)
         ELSE IF ast.stmt.expr.kind = "IdentifierExpression"
         THEN IF ~ast.stmt.expr.named THEN Faulted(<<>>)
              ELSE checkIdText(ast, ast.stmt.expr.text, <<>>, qmlScopeObjects, qmlTypes, line)
         ELSE IF ast.stmt.expr.kind = "StringLiteral"
         THEN checkIdText(ast, ast.stmt.expr.text,
                          <<warningMessage(statementRange(line),
                                           "using string literals for ids is discouraged", <<>>)>>,
                          qmlScopeObjects, qmlTypes, line)
         ELSE Visited(<<errorMessage(statementRange(line), "expected id", <<>>)>>, FALSE)
    ELSE checkBinding(ast, <<>>, qmlScopeObjects, qmlTypes, line)

(***************************************************************************)
(* ScopeBuilder.  _nodes is the stack of pushed nodes, an entry [kind,     *)
(* obj]: kind "qml" for an object element with its scope object, "js" for  *)
(* a function.  The scope objects are rebuilt from the stack when an       *)
(* object element is pushed or popped: one per enclosing element,          *)
(* innermost last.                                                         *)
(***************************************************************************)
RECURSIVE lexicalScopeObjects(_)
lexicalScopeObjects(pushed) ==
    IF pushed = <<>> THEN <<>>
    ELSE LET rest == lexicalScopeObjects(SubSeq(pushed, 1, Len(pushed) - 1))
         IN  IF pushed[Len(pushed)].kind = "qml"
             THEN Append(rest, pushed[Len(pushed)].obj)
             ELSE rest

\* the scope object of an element: its type's members, none for an unknown type
scopeObjectOf(ast) ==
    IF lookupType(ast.typeId) # NoObject THEN lookupType(ast.typeId) ELSE "Unknown"

isQmlObject(ast) == ast.kind \in {"UiObjectDefinition", "UiObjectBinding"}

\* ScopeBuilder::push: the new [nodes, qmlScopeObjects]
scopeBuilderPush(pushed, qmlScopeObjects, ast) ==
    LET entry == [kind |-> IF isQmlObject(ast) THEN "qml" ELSE "js",
                  obj  |-> IF isQmlObject(ast) THEN scopeObjectOf(ast) ELSE NoObject]
    IN  [nodes |-> Append(pushed, entry),
         qmlScopeObjects |-> IF isQmlObject(ast)
                             THEN lexicalScopeObjects(Append(pushed, entry))
                             ELSE qmlScopeObjects]

\* ScopeBuilder::pop
scopeBuilderPop(pushed, qmlScopeObjects) ==
    LET rest == SubSeq(pushed, 1, Len(pushed) - 1)
    IN  [nodes |-> rest,
         qmlScopeObjects |-> IF pushed[Len(pushed)].kind = "qml"
                             THEN lexicalScopeObjects(rest)
                             ELSE qmlScopeObjects]

(***************************************************************************)
(* Check::visitQmlObject up to the visit of the initializer (lines         *)
(* 234-256): the diagnostics appended, whether the initializer is visited, *)
(* the scope builder's stack and the scope objects afterwards.             *)
(***************************************************************************)
Entered(msgs, descend, pushed, qmlScopeObjects, fault) ==
    [msgs |-> msgs, descend |-> descend, nodes |-> pushed,
     qmlScopeObjects |-> qmlScopeObjects, fault |-> fault]

\* visitQmlObject with the push ahead of the early return for a grouped property
visitQmlObject_PushFirst(ast, pushed, qmlScopeObjects, qmlTypes, ignoreTypeErrors, line) ==
    IF ~ast.typeId[1].named
    THEN Entered(<<>>, FALSE, pushed, qmlScopeObjects, TRUE)
    ELSE LET scope == scopeBuilderPush(pushed, qmlScopeObjects, ast)
         IN  IF isLower(ast.typeId[1].name[1]) /\ Len(ast.typeId) = 1
             THEN Entered(checkScopeObjectMember(qmlScopeObjects, qmlTypes, ast.typeId,
                                                 line, 30).msgs,
                          FALSE, scope.nodes, qmlScopeObjects, FALSE)
             ELSE IF lookupType(ast.typeId) = NoObject
             THEN Entered(IF ~ignoreTypeErrors
                          THEN <<errorMessage(identifierToken(ast.typeId, 1, line, 30),
                                              "unknown type", <<>>)>>
                          ELSE <<>>,
                          TRUE, scope.nodes, <<>>, FALSE)
             ELSE Entered(<<>>, TRUE, scope.nodes, scope.qmlScopeObjects, FALSE)

\* visitQmlObject clearing the scope objects only when it reports the unknown type
visitQmlObject_ClearsIfReported(ast, pushed, qmlScopeObjects, qmlTypes, ignoreTypeErrors, line) ==
    IF ~ast.typeId[1].named
    THEN Entered(<<>>, FALSE, pushed, qmlScopeObjects, TRUE)
    ELSE IF isLower(ast.typeId[1].name[1]) /\ Len(ast.typeId) = 1
    THEN Entered(checkScopeObjectMember(qmlScopeObjects, qmlTypes, ast.typeId, line, 30).msgs,
                 FALSE, pushed, qmlScopeObjects, FALSE)
    ELSE LET scope == scopeBuilderPush(pushed, qmlScopeObjects, ast)
         IN  IF lookupType(ast.typeId) = NoObject /\ ~ignoreTypeErrors
             THEN Entered(<<errorMessage(identifierToken(ast.typeId, 1, line, 30),
                                         "unknown type", <<>>)>>,
                          TRUE, scope.nodes, <<>>, FALSE)
             ELSE Entered(<<>>, TRUE, scope.nodes, scope.qmlScopeObjects, FALSE)

\* visitQmlObject visiting the initializer of a grouped property
visitQmlObject_GroupDescends(ast, pushed, qmlScopeObjects, qmlTypes, ignoreTypeErrors, line) ==
    IF ~ast.typeId[1].named
    THEN Entered(<<>>, FALSE, pushed, qmlScopeObjects, TRUE)
    ELSE IF isLower(ast.typeId[1].name[1]) /\ Len(ast.typeId) = 1
    THEN Entered(checkScopeObjectMember(qmlScopeObjects, qmlTypes, ast.typeId, line, 30).msgs,
                 TRUE, pushed, qmlScopeObjects, FALSE)
    ELSE LET scope == scopeBuilderPush(pushed, qmlScopeObjects, ast)
         IN  IF lookupType(ast.typeId) = NoObject
             THEN Entered(IF ~ignoreTypeErrors
                          THEN <<errorMessage(identifierToken(ast.typeId, 1, line, 30),
                                              "unknown type", <<>>)>>
                          ELSE <<>>,
                          TRUE, scope.nodes, <<>>, FALSE)
             ELSE Entered(<<>>, TRUE, scope.nodes, scope.qmlScopeObjects, FALSE)

visitQmlObject(ast, pushed, qmlScopeObjects, qmlTypes, ignoreTypeErrors, line) ==
    IF ~ast.typeId[1].named
    THEN Entered(<<>>, FALSE, pushed, qmlScopeObjects, TRUE)
    ELSE IF isLower(ast.typeId[1].name[1]) /\ Len(ast.typeId) = 1
    THEN Entered(checkScopeObjectMember(qmlScopeObjects, qmlTypes, ast.typeId, line, 30).msgs,
                 FALSE, pushed, qmlScopeObjects, FALSE)
    ELSE LET scope == scopeBuilderPush(pushed, qmlScopeObjects, ast)
         IN  IF lookupType(ast.typeId) = NoObject
             THEN Entered(IF ~ignoreTypeErrors
                          THEN <<errorMessage(identifierToken(ast.typeId, 1, line, 30),
                                              "unknown type", <<>>)>>
                          ELSE <<>>,
                          TRUE, scope.nodes, <<>>, FALSE)
             ELSE Entered(<<>>, TRUE, scope.nodes, scope.qmlScopeObjects, FALSE)

(***************************************************************************)
(* The documents checked.                                                  *)
(***************************************************************************)
RECURSIVE Size(_), SizeAll(_)
Size(node) == 1 + SizeAll(node.members)
SizeAll(members) == IF members = <<>> THEN 0 ELSE Size(Head(members)) + SizeAll(Tail(members))

Identifier(name) == Expr("IdentifierExpression", name)
NamelessIdentifier == [Identifier(<<>>) EXCEPT !.named = FALSE]
StringLiteral(text, url) == [Expr("StringLiteral", text) EXCEPT !.url = url]
UnaryMinus(operand) == [Expr("UnaryMinusExpression", <<>>) EXCEPT !.operand = operand]

\* qualified ids, type names and statements of the generated documents
DocQualifiedIds == {<<Seg(N_x)>>, <<Seg(N_n)>>, <<NoName>>}
DocTypeIds      == {<<Seg(N_Item)>>, <<Seg(N_Foo)>>, <<Seg(N_o)>>, <<NoName>>}
DocStatement    == ExpressionStatement(Identifier(<<"a">>), NumberValue)

RECURSIVE Trees(_, _), Forests(_, _)
\* the nodes of at most n nodes that may stand in a context
Trees(n, context) ==
    IF n = 0 THEN {}
    ELSE CASE context = "object" ->
                {UiScriptBinding(q, DocStatement, <<>>) : q \in DocQualifiedIds}
                \cup {UiScriptBinding(<<Seg(N_x)>>, Block, fs) : fs \in Forests(n - 1, "js")}
                \cup {UiObjectDefinition(t, ms) :
                         t \in DocTypeIds, ms \in Forests(n - 1, "object")}
                \cup {UiObjectBinding(<<Seg(N_n)>>, t, ms) :
                         t \in {<<Seg(N_Foo)>>, <<Seg(N_o)>>}, ms \in Forests(n - 1, "object")}
                \cup {UiArrayBinding(<<Seg(N_n)>>, ms) : ms \in Forests(n - 1, "array")}
                \cup {Function("FunctionDeclaration", 1, fs) : fs \in Forests(n - 1, "js")}
           [] context = "array" ->
                {UiObjectDefinition(t, ms) :
                    t \in {<<Seg(N_Item)>>, <<Seg(N_Foo)>>}, ms \in Forests(n - 1, "object")}
           [] OTHER ->
                {Function("FunctionExpression", 0, fs) : fs \in Forests(n - 1, "js")}
                \cup {Function("FunctionDeclaration", 1, fs) : fs \in Forests(n - 1, "js")}

\* the member lists of at most n nodes in all
Forests(n, context) ==
    {<<>>} \cup UNION {{<<t>> \o f : f \in Forests(n - Size(t), context)} :
                          t \in Trees(n, context)}

\* a root object of any shape, or no root at all
GeneratedDocs ==
    {<<>>} \cup {<<UiObjectDefinition(t, ms)>> :
                    t \in DocTypeIds, ms \in Forests(MaxNodes - 1, "object")}

\* one script binding in a root object: every property, statement and value
BindingQualifiedIds ==
    {<<Seg(n)>> : n \in {N_x, N_e, N_b, N_s, N_u, N_c, N_l, N_o, N_n, N_id, N_K, N_N}}
    \cup {<<NoName>>,
          <<Seg(N_o), Seg(N_l)>>, <<Seg(N_o), Seg(N_n)>>, <<Seg(N_x), Seg(N_l)>>,
          <<Seg(N_n), Seg(N_x)>>, <<Seg(N_o), NoName>>, <<Seg(N_id), Seg(N_x)>>,
          <<Seg(N_o), Seg(N_o), Seg(N_x)>>}

BindingExpressions ==
    {Identifier(<<"a">>), Identifier(<<"A">>), NamelessIdentifier,
     StringLiteral(<<>>, "nonlocal"), StringLiteral(<<"a">>, "nonlocal"),
     StringLiteral(<<"A">>, "nonlocal"), StringLiteral(<<"k">>, "nonlocal"),
     StringLiteral(<<"#", "8", "F", "8", "F", "8", "F">>, "nonlocal"),
     StringLiteral(<<"a">>, "invalid"), StringLiteral(<<"a">>, "missing"),
     StringLiteral(<<"a">>, "exists"), StringLiteral(<<"r", "e", "d">>, "missing"),
     Expr("NumericLiteral", <<>>), Expr("TrueLiteral", <<>>), Expr("FalseLiteral", <<>>),
     UnaryMinus("NumericLiteral"), UnaryMinus("IdentifierExpression"),
     Expr("BinaryExpression", <<>>)}

EvaluatedValues ==
    {NoValue, UndefinedValue, NumberValue, StringValue, BooleanValue, AnchorLineValue,
     ObjectValue("Anchors")}

BindingStatements ==
    {NoStmt, Block}
    \cup {ExpressionStatement(e, v) : e \in BindingExpressions, v \in EvaluatedValues}

BindingDocs ==
    {<<UiObjectDefinition(t, <<UiScriptBinding(q, st, <<>>)>>)>> :
        t \in {<<Seg(N_Item)>>, <<Seg(N_Foo)>>},
        q \in BindingQualifiedIds, st \in BindingStatements}

\* a nested element with a binding inside, its type name in lower case: a
\* grouped property when it is one segment, a type when it is dotted
GroupedDocs ==
    {<<UiObjectDefinition(<<Seg(N_Item)>>,
                          <<UiObjectDefinition(t, <<UiScriptBinding(<<Seg(N_n)>>, DocStatement,
                                                                    <<>>)>>)>>)>> :
        t \in {<<Seg(N_n)>>, <<Seg(N_o), Seg(N_x)>>}}

Docs == GeneratedDocs \cup BindingDocs \cup GroupedDocs

\* the inputs of direct calls of the resolver and of toQColor
ScopeObjectIds == {"Item", "Anchors", "Other", "Unknown"}
ScopeChains == UNION {[1..n -> ScopeObjectIds] : n \in 0..MaxScope}
SegmentSet  == {Seg(n) : n \in {N_id, N_x, N_o, N_n, N_K}} \cup {NoName}
ResolverIds == UNION {[1..n -> SegmentSet] : n \in 0..MaxSegments}

ColorChars == {"#", "8", "F", "-"}

(***************************************************************************)
(* State.                                                                  *)
(***************************************************************************)
VARIABLES
    doc,                \* _doc->ast(): the root members of the program
    qmlTypes,           \* _context.scopeChain().qmlTypes, NoObject when null
    qmlScopeObjects,    \* _context.scopeChain().qmlScopeObjects
    nodes,              \* _scopeBuilder._nodes
    ignoreTypeErrors,   \* _ignoreTypeErrors
    messages,           \* _messages
    pc,                 \* "idle", "walking" (inside operator()) or "crashed"
    stack,              \* the traversal's recursion: frames [kind, todo]
    line,               \* the line of the node last visited
    startDepth,         \* Len(nodes) when the running traversal began
    returned,           \* what each finished run returned, with its option
    last,               \* the handler that ran last, on what, from which length of messages
    colorString,        \* the argument of toQColor
    color,              \* [done, result] of the call of toQColor
    assignment,         \* a call of AssignmentCheck: its arguments, [done, message, fault]
    view,               \* currentView(): the page m_ui->viewStack shows
    m_currentOperation, \* the future m_currentOperation watches, 0 when nullptr
    futures,            \* the operations m_sdkManager started: [finished, canceled]
    signals,            \* the signals the widget emitted, in order
    slot                \* the slot that ran last, and what it gave to addPackageFuture

vars == <<doc, qmlTypes, qmlScopeObjects, nodes, ignoreTypeErrors, messages, pc, stack,
          line, startDepth, returned, last, colorString, color, assignment,
          view, m_currentOperation, futures, signals, slot>>

checkVars == <<doc, qmlTypes, qmlScopeObjects, nodes, ignoreTypeErrors, messages, pc, stack,
               line, startDepth, returned, last>>
colorVars == <<colorString, color>>
assignVars == <<assignment>>
widgetVars == <<view, m_currentOperation, futures, signals, slot>>

Frame(kind, todo) == [kind |-> kind, todo |-> todo]

\* scope and frames are the scope objects and the number of frames before the
\* handler ran, formalsDepth the scope depth at which a function's formals
\* were accepted, assigned whether the handler called AssignmentCheck
NoLast == [op |-> "none", node |-> NoNode, id |-> <<>>, from |-> 0, depth |-> 0,
           value |-> NoValue, ret |-> FALSE, scope |-> <<>>, frames |-> 0,
           formalsDepth |-> 0, assigned |-> FALSE]
Last(op, node, ret) ==
    [op |-> op, node |-> node, id |-> <<>>, from |-> Len(messages), depth |-> Len(nodes),
     value |-> NoValue, ret |-> ret, scope |-> qmlScopeObjects, frames |-> Len(stack),
     formalsDepth |-> 0, assigned |-> FALSE]

(***************************************************************************)
(* The traversal.  Node::accept visits the nodes of a member list in       *)
(* order; a frame holds the members still to visit.  Returning from the    *)
(* members of a program, an array binding or a statement runs no code of   *)
(* the checker, so unwind drops such frames as they empty.                 *)
(***************************************************************************)
RECURSIVE unwind(_)
unwind(frames) ==
    IF frames # <<>>
       /\ frames[Len(frames)].todo = <<>>
       /\ frames[Len(frames)].kind \in {"program", "array", "statement"}
    THEN unwind(SubSeq(frames, 1, Len(frames) - 1))
    ELSE frames

Top     == stack[Len(stack)]
Current == Head(Top.todo)
\* the current node is done and has no children to visit
Passed  == [stack EXCEPT ![Len(stack)].todo = Tail(@)]
\* the current node is done and its children come next
Descended(kind, members) == Append(Passed, Frame(kind, members))

AtNode(kinds) ==
    /\ pc = "walking"
    /\ stack # <<>>
    /\ Top.todo # <<>>
    /\ Current.kind \in kinds

InitCheck ==
    /\ qmlScopeObjects = <<>>
    /\ nodes = <<>>
    /\ ignoreTypeErrors = FALSE
    /\ messages = <<>>
    /\ pc = "idle"
    /\ stack = <<>>
    /\ line = 0
    /\ startDepth = 0
    /\ returned = <<>>
    /\ last = NoLast

InitColor ==
    /\ colorString = <<>>
    /\ color = [done |-> FALSE, result |-> InvalidColor]

\* no call of AssignmentCheck outside a traversal
NoAssignment ==
    [done |-> FALSE, lhsValue |-> NoValue, rhsValue |-> NoValue, ast |-> NoExpr,
     message |-> DiagnosticMessage("Error", SourceLocation(0, 0, 0, 0), "", <<>>),
     fault |-> FALSE]

InitAssign == assignment = NoAssignment

\* added is the future the slot gave to addPackageFuture (0 when it gave
\* none), watching the value of m_currentOperation at that call
Slot(op, added, watching) == [op |-> op, added |-> added, watching |-> watching]

\* AndroidSdkManagerWidget::AndroidSdkManagerWidget with an idle sdk manager
InitWidget ==
    /\ view = "PackageListing"
    /\ m_currentOperation = 0
    /\ futures = <<>>
    /\ signals = <<>>
    /\ slot = Slot("none", 0, 0)

\* Check::Check on a linked context without scope
Init ==
    /\ doc \in Docs
    /\ qmlTypes \in {NoObject, "Types"}
    /\ InitCheck
    /\ InitWidget
    /\ InitColor
    /\ InitAssign

\* Check::setIgnoreTypeErrors
SetIgnoreTypeErrors ==
    /\ pc = "idle"
    /\ Len(returned) < MaxRuns
    /\ ignoreTypeErrors' = ~ignoreTypeErrors
    /\ UNCHANGED <<doc, qmlTypes, qmlScopeObjects, nodes, messages, pc, stack, line,
                   startDepth, returned, last>>
    /\ UNCHANGED colorVars
    /\ UNCHANGED assignVars
    /\ UNCHANGED widgetVars

\* Check::operator() without _messages.clear()
OperatorCall_NoClear ==
    /\ pc = "idle"
    /\ Len(returned) < MaxRuns
    /\ messages' = messages
    /\ pc' = "walking"
    /\ stack' = unwind(<<Frame("program", doc)>>)
    /\ line' = 0
    /\ startDepth' = Len(nodes)
    /\ last' = [Last("operator()", NoNode, TRUE) EXCEPT !.from = 0]
    /\ UNCHANGED <<doc, qmlTypes, qmlScopeObjects, nodes, ignoreTypeErrors, returned>>
    /\ UNCHANGED colorVars
    /\ UNCHANGED assignVars
    /\ UNCHANGED widgetVars

\* Check::operator(): clear the messages and accept the program
OperatorCall ==
    /\ pc = "idle"
    /\ Len(returned) < MaxRuns
    /\ messages' = <<>>
    /\ pc' = "walking"
    /\ stack' = unwind(<<Frame("program", doc)>>)
    /\ line' = 0
    /\ startDepth' = Len(nodes)
    /\ last' = [Last("operator()", NoNode, TRUE) EXCEPT !.from = 0]
    /\ UNCHANGED <<doc, qmlTypes, qmlScopeObjects, nodes, ignoreTypeErrors, returned>>
    /\ UNCHANGED colorVars
    /\ UNCHANGED assignVars
    /\ UNCHANGED widgetVars

\* Check::operator(): return _messages
OperatorReturn ==
    /\ pc = "walking"
    /\ stack = <<>>
    /\ returned' = Append(returned, [ignoreTypeErrors |-> ignoreTypeErrors,
                                     messages |-> messages])
    /\ pc' = "idle"
    /\ last' = Last("return", NoNode, TRUE)
    /\ UNCHANGED <<doc, qmlTypes, qmlScopeObjects, nodes, ignoreTypeErrors, messages, stack,
                   line, startDepth>>
    /\ UNCHANGED colorVars
    /\ UNCHANGED assignVars
    /\ UNCHANGED widgetVars

\* the effect of entering an object element: visitQmlObject up to the initializer
EnterQmlObject(op, before) ==
    LET entered == visitQmlObject(Current, nodes, qmlScopeObjects, qmlTypes,
                                  ignoreTypeErrors, line + 1)
    IN  /\ line' = line + 1
        /\ messages' = messages \o before \o entered.msgs
        /\ nodes' = entered.nodes
        /\ qmlScopeObjects' = entered.qmlScopeObjects
        /\ pc' = IF entered.fault THEN "crashed" ELSE "walking"
        /\ stack' = IF entered.fault THEN stack
                    ELSE IF entered.descend THEN Descended("object", Current.members)
                    ELSE unwind(Passed)
        /\ last' = Last(op, Current, FALSE)
        /\ UNCHANGED <<doc, qmlTypes, ignoreTypeErrors, startDepth, returned>>
        /\ UNCHANGED colorVars
        /\ UNCHANGED assignVars
        /\ UNCHANGED widgetVars

\* Check::visit(UiObjectDefinition *)
VisitUiObjectDefinition ==
    /\ AtNode({"UiObjectDefinition"})
    /\ EnterQmlObject("UiObjectDefinition", <<>>)

\* Check::visit(UiObjectBinding *) giving up on the element when its
\* qualified id does not resolve
VisitUiObjectBinding_StopsOnError ==
    /\ AtNode({"UiObjectBinding"})
    /\ LET resolved == checkScopeObjectMember(qmlScopeObjects, qmlTypes, Current.qid,
                                              line + 1, 1)
       IN  IF resolved.msgs = <<>>
           THEN EnterQmlObject("UiObjectBinding", <<>>)
           ELSE /\ line' = line + 1
                /\ messages' = messages \o resolved.msgs
                /\ stack' = unwind(Passed)
                /\ last' = Last("UiObjectBinding", Current, FALSE)
                /\ UNCHANGED <<doc, qmlTypes, qmlScopeObjects, nodes, ignoreTypeErrors, pc,
                               startDepth, returned>>
                /\ UNCHANGED colorVars
                /\ UNCHANGED assignVars
                /\ UNCHANGED widgetVars

\* Check::visit(UiObjectBinding *)
VisitUiObjectBinding ==
    /\ AtNode({"UiObjectBinding"})
    /\ EnterQmlObject("UiObjectBinding",
                      checkScopeObjectMember(qmlScopeObjects, qmlTypes, Current.qid,
                                             line + 1, 1).msgs)

\* Check::visitQmlObject after the visit of the initializer: _scopeBuilder.pop()
LeaveQmlObject ==
    /\ pc = "walking"
    /\ stack # <<>>
    /\ Top.kind = "object"
    /\ Top.todo = <<>>
    /\ LET scope == scopeBuilderPop(nodes, qmlScopeObjects)
       IN  /\ nodes' = scope.nodes
           /\ qmlScopeObjects' = scope.qmlScopeObjects
    /\ stack' = unwind(SubSeq(stack, 1, Len(stack) - 1))
    /\ last' = Last("leave object", NoNode, FALSE)
    /\ UNCHANGED <<doc, qmlTypes, ignoreTypeErrors, messages, pc, line, startDepth, returned>>
    /\ UNCHANGED colorVars
    /\ UNCHANGED assignVars
    /\ UNCHANGED widgetVars

\* Check::visit(UiScriptBinding *)
VisitUiScriptBinding ==
    /\ AtNode({"UiScriptBinding"})
    /\ LET visited == visitUiScriptBinding(Current, qmlScopeObjects, qmlTypes, line + 1)
       IN  /\ line' = line + 1
           /\ messages' = messages \o visited.msgs
           /\ pc' = IF visited.fault THEN "crashed" ELSE "walking"
           /\ stack' = IF visited.fault THEN stack
                       ELSE IF visited.ret
                       THEN unwind(Descended("statement", Current.members))
                       ELSE unwind(Passed)
           /\ last' = [Last("UiScriptBinding", Current, visited.ret)
                          EXCEPT !.assigned = visited.assigned]
    /\ UNCHANGED <<doc, qmlTypes, qmlScopeObjects, nodes, ignoreTypeErrors, startDepth,
                   returned>>
    /\ UNCHANGED colorVars
    /\ UNCHANGED assignVars
    /\ UNCHANGED widgetVars

\* Check::visit(UiArrayBinding *)
VisitUiArrayBinding ==
    /\ AtNode({"UiArrayBinding"})
    /\ line' = line + 1
    /\ messages' = messages \o checkScopeObjectMember(qmlScopeObjects, qmlTypes, Current.qid,
                                                       line + 1, 1).msgs
    /\ stack' = unwind(Descended("array", Current.members))
    /\ last' = Last("UiArrayBinding", Current, TRUE)
    /\ UNCHANGED <<doc, qmlTypes, qmlScopeObjects, nodes, ignoreTypeErrors, pc, startDepth,
                   returned>>
    /\ UNCHANGED colorVars
    /\ UNCHANGED assignVars
    /\ UNCHANGED widgetVars

\* Check::visit(FunctionExpression *) up to the accept of the body (lines
\* 373-377): the depth of the scope builder at which the formals are
\* accepted, the scope builder's stack and the scope objects after the
\* push, and the value returned at the end
FunctionEntered(formalsDepth, scope, ret) ==
    [formalsDepth |-> formalsDepth, nodes |-> scope.nodes,
     qmlScopeObjects |-> scope.qmlScopeObjects, ret |-> ret]

\* the function pushed ahead of the accept of the formals
visitFunctionExpression_PushFirst(ast, pushed, scopeObjects) ==
    LET scope == scopeBuilderPush(pushed, scopeObjects, ast)
    IN  FunctionEntered(Len(scope.nodes), scope, FALSE)

visitFunctionExpression(ast, pushed, scopeObjects) ==
    LET formalsDepth == Len(pushed)
        scope == scopeBuilderPush(pushed, scopeObjects, ast)
    IN  FunctionEntered(formalsDepth, scope, FALSE)

\* Check::visit(FunctionDeclaration *) and Check::visit(FunctionExpression *):
\* the formals are accepted, then the function is pushed and the body accepted.
\* Were the value returned true, Node::accept would go through the function's
\* children once more after the visit.
VisitFunctionExpression ==
    /\ AtNode({"FunctionDeclaration", "FunctionExpression"})
    /\ line' = line + 1
    /\ LET entered == visitFunctionExpression(Current, nodes, qmlScopeObjects)
       IN  /\ nodes' = entered.nodes
           /\ qmlScopeObjects' = entered.qmlScopeObjects
           /\ last' = [Last("FunctionExpression", Current, entered.ret)
                          EXCEPT !.formalsDepth = entered.formalsDepth]
           /\ stack' = IF entered.ret
                       THEN Append(Append(Passed, Frame("statement", Current.members)),
                                   Frame("function", Current.members))
                       ELSE Descended("function", Current.members)
    /\ UNCHANGED <<doc, qmlTypes, ignoreTypeErrors, messages, pc, startDepth, returned>>
    /\ UNCHANGED colorVars
    /\ UNCHANGED assignVars
    /\ UNCHANGED widgetVars

\* Check::visit(FunctionExpression *) after the body: _scopeBuilder.pop()
LeaveFunctionExpression ==
    /\ pc = "walking"
    /\ stack # <<>>
    /\ Top.kind = "function"
    /\ Top.todo = <<>>
    /\ LET scope == scopeBuilderPop(nodes, qmlScopeObjects)
       IN  /\ nodes' = scope.nodes
           /\ qmlScopeObjects' = scope.qmlScopeObjects
    /\ stack' = unwind(SubSeq(stack, 1, Len(stack) - 1))
    /\ last' = Last("leave function", NoNode, FALSE)
    /\ UNCHANGED <<doc, qmlTypes, ignoreTypeErrors, messages, pc, line, startDepth, returned>>
    /\ UNCHANGED colorVars
    /\ UNCHANGED assignVars
    /\ UNCHANGED widgetVars

Next ==
    \/ SetIgnoreTypeErrors
    \/ OperatorCall
    \/ OperatorReturn
    \/ VisitUiObjectDefinition
    \/ VisitUiObjectBinding
    \/ LeaveQmlObject
    \/ VisitUiScriptBinding
    \/ VisitUiArrayBinding
    \/ VisitFunctionExpression
    \/ LeaveFunctionExpression

Spec == Init /\ [][Next]_vars

(***************************************************************************)
(* Direct calls of the resolver, on any scope chain and any qualified id.  *)
(***************************************************************************)
InitResolve ==
    /\ doc = <<>>
    /\ qmlTypes \in {NoObject, "Types"}
    /\ InitCheck
    /\ InitWidget
    /\ InitColor
    /\ InitAssign

\* a Check in the middle of a traversal, with the scope chain the context holds there
EnterScope ==
    /\ pc = "idle"
    /\ \E chain \in ScopeChains : qmlScopeObjects' = chain
    /\ pc' = "walking"
    /\ UNCHANGED <<doc, qmlTypes, nodes, ignoreTypeErrors, messages, stack, line, startDepth,
                   returned, last>>
    /\ UNCHANGED colorVars
    /\ UNCHANGED assignVars
    /\ UNCHANGED widgetVars

\* one call of Check::checkScopeObjectMember
ResolveCall ==
    /\ pc = "walking"
    /\ last.op = "none"
    /\ \E id \in ResolverIds :
          LET resolved == checkScopeObjectMember(qmlScopeObjects, qmlTypes, id, 1, 1)
          IN  /\ messages' = messages \o resolved.msgs
              /\ last' = [Last("checkScopeObjectMember", NoNode, FALSE)
                             EXCEPT !.id = id, !.value = resolved.value]
    /\ UNCHANGED <<doc, qmlTypes, qmlScopeObjects, nodes, ignoreTypeErrors, pc, stack, line,
                   startDepth, returned>>
    /\ UNCHANGED colorVars
    /\ UNCHANGED assignVars
    /\ UNCHANGED widgetVars

NextResolve == EnterScope \/ ResolveCall

SpecResolve == InitResolve /\ [][NextResolve]_vars

(***************************************************************************)
(* Calls of toQColor.                                                      *)
(***************************************************************************)
InitColorString ==
    /\ doc = <<>>
    /\ qmlTypes = NoObject
    /\ InitCheck
    /\ InitWidget
    /\ \/ \E n \in 0..MaxColorLen : colorString \in [1..n -> ColorChars]
       \/ colorString = <<"r", "e", "d">>
    /\ color = [done |-> FALSE, result |-> InvalidColor]
    /\ InitAssign

ToQColorCall ==
    /\ ~color.done
    /\ color' = [done |-> TRUE, result |-> toQColor(colorString)]
    /\ UNCHANGED colorString
    /\ UNCHANGED checkVars
    /\ UNCHANGED assignVars
    /\ UNCHANGED widgetVars

NextColor == ToQColorCall

SpecColor == InitColorString /\ [][NextColor]_vars

(***************************************************************************)
(* Calls of AssignmentCheck, on any declared value, evaluated value and    *)
(* expression.                                                             *)
(***************************************************************************)
DeclaredValues ==
    {NoValue, QmlEnumValue(EnumKeys), NumberValue, BooleanValue, StringValue, UrlValue,
     ColorValue, AnchorLineValue, UndefinedValue, ObjectValue("Anchors")}

InitAssignment ==
    /\ doc = <<>>
    /\ qmlTypes = NoObject
    /\ InitCheck
    /\ InitWidget
    /\ InitColor
    /\ \E lhsValue \in DeclaredValues, rhsValue \in EvaluatedValues, ast \in BindingExpressions :
          assignment = [NoAssignment EXCEPT !.lhsValue = lhsValue, !.rhsValue = rhsValue,
                                            !.ast = ast]

\* one call of AssignmentCheck::operator()
AssignmentCheckCall ==
    /\ ~assignment.done
    /\ LET checked == AssignmentCheck(statementRange(1), assignment.lhsValue,
                                      assignment.rhsValue, assignment.ast)
       IN  assignment' = [assignment EXCEPT !.done = TRUE, !.message = checked.message,
                                            !.fault = checked.fault]
    /\ UNCHANGED checkVars
    /\ UNCHANGED colorVars
    /\ UNCHANGED widgetVars

NextAssign == AssignmentCheckCall

SpecAssign == InitAssignment /\ [][NextAssign]_vars

(***************************************************************************)
(* AndroidSdkManagerWidget.  The sdk manager runs each operation on a      *)
(* worker thread and hands out its future; the widget's slots run on the   *)
(* gui thread, one at a time.  A future finishes in a step of the worker,  *)
(* and the watcher's finished signal is delivered to the widget in a       *)
(* later step of the gui thread.                                           *)
(***************************************************************************)
MaxOperations == 3

Future(finished, canceled) == [finished |-> finished, canceled |-> canceled]

\* m_sdkManager->isBusy(): an operation of the manager has not finished
isBusy(fs) == \E i \in 1..Len(fs) : ~fs[i].finished

\* m_sdkManager->cancelOperatons(): the running operations are cancelled
cancelOperatons(fs) ==
    [i \in 1..Len(fs) |-> IF fs[i].finished THEN fs[i] ELSE Future(FALSE, TRUE)]

\* m_sdkManager->update and updateAll: a new operation, which the worker
\* may have finished by the time the future is handed to addPackageFuture
StartedOperation(w, done) == [w EXCEPT !.futures = Append(@, Future(done, FALSE))]

\* the widget's members, with the operations of its sdk manager
Widget ==
    [view |-> view, m_currentOperation |-> m_currentOperation, futures |-> futures,
     signals |-> signals]

switchView(w, v) == [w EXCEPT !.view = v]

emit(w, signal) == [w EXCEPT !.signals = Append(@, signal)]

cancelPendingOperations(w) ==
    IF ~isBusy(w.futures) THEN w
    ELSE [w EXCEPT !.futures = cancelOperatons(@)]

\* the slot connected to the model's modelAboutToBeReset
modelAboutToBeReset(w) == switchView(cancelPendingOperations(w), "PackageListing")

\* m_sdkManager->reloadPackages(true), which may reset the model
reloadPackages(w, reset) == IF reset THEN modelAboutToBeReset(w) ELSE w

notifyOperationFinished(w, reset) ==
    IF w.m_currentOperation = 0 \/ w.futures[w.m_currentOperation].finished
    THEN emit(reloadPackages(switchView(w, "PackageListing"), reset), "updatingSdkFinished")
    ELSE w

addPackageFuture(w, future, reset) ==
    IF w.m_currentOperation # 0 THEN w
    ELSE IF ~w.futures[future].finished \/ ~w.futures[future].canceled
    THEN [w EXCEPT !.m_currentOperation = future]
    ELSE notifyOperationFinished(w, reset)

packageFutureFinished(w, reset) ==
    IF w.m_currentOperation = 0 THEN w
    ELSE notifyOperationFinished([w EXCEPT !.m_currentOperation = 0], reset)

\* selected: the user selected packages; agreed: the user chose Ok in the dialog
onApplyButton(w, selected, agreed, done, reset) ==
    IF w.view # "PackageListing" THEN w
    ELSE IF isBusy(w.futures) THEN w
    ELSE IF ~selected THEN w
    ELSE IF ~agreed THEN w
    ELSE LET started == StartedOperation(switchView(emit(w, "updatingSdk"), "Operations"), done)
         IN  addPackageFuture(started, Len(started.futures), reset)

onUpdatePackages(w, done, reset) ==
    IF isBusy(w.futures) THEN w
    ELSE LET started == StartedOperation(switchView(w, "Operations"), done)
         IN  addPackageFuture(started, Len(started.futures), reset)

\* the slot has run and left the widget as w
Becomes(w) ==
    /\ view' = w.view
    /\ m_currentOperation' = w.m_currentOperation
    /\ futures' = w.futures
    /\ signals' = w.signals

\* the slot gave the operation it started, if any, to addPackageFuture
Started(op, w) ==
    IF Len(w.futures) > Len(futures)
    THEN Slot(op, Len(w.futures), m_currentOperation)
    ELSE Slot(op, 0, 0)

InitWidgetOnly ==
    /\ doc = <<>>
    /\ qmlTypes = NoObject
    /\ InitCheck
    /\ InitColor
    /\ InitAssign
    /\ InitWidget

\* a click on applySelectionButton
OnApplyButton ==
    /\ Len(futures) < MaxOperations
    /\ \E selected \in BOOLEAN, agreed \in BOOLEAN, done \in BOOLEAN, reset \in BOOLEAN :
          LET w == onApplyButton(Widget, selected, agreed, done, reset)
          IN  /\ Becomes(w)
              /\ slot' = Started("onApplyButton", w)
    /\ UNCHANGED checkVars
    /\ UNCHANGED colorVars
    /\ UNCHANGED assignVars

\* a click on updateInstalledButton
OnUpdatePackages ==
    /\ Len(futures) < MaxOperations
    /\ \E done \in BOOLEAN, reset \in BOOLEAN :
          LET w == onUpdatePackages(Widget, done, reset)
          IN  /\ Becomes(w)
              /\ slot' = Started("onUpdatePackages", w)
    /\ UNCHANGED checkVars
    /\ UNCHANGED colorVars
    /\ UNCHANGED assignVars

\* a click on cancelButton
OnCancel ==
    /\ Becomes(cancelPendingOperations(Widget))
    /\ slot' = Slot("onCancel", 0, 0)
    /\ UNCHANGED checkVars
    /\ UNCHANGED colorVars
    /\ UNCHANGED assignVars

\* the worker thread finishes an operation
FutureFinishes ==
    /\ \E i \in 1..Len(futures) :
          /\ ~futures[i].finished
          /\ futures' = [futures EXCEPT ![i].finished = TRUE]
    /\ UNCHANGED <<view, m_currentOperation, signals, slot>>
    /\ UNCHANGED checkVars
    /\ UNCHANGED colorVars
    /\ UNCHANGED assignVars

\* the finished signal of the watcher m_currentOperation reaches the widget
PackageFutureFinished ==
    /\ m_currentOperation # 0
    /\ futures[m_currentOperation].finished
    /\ \E reset \in BOOLEAN : Becomes(packageFutureFinished(Widget, reset))
    /\ slot' = Slot("packageFutureFinished", 0, 0)
    /\ UNCHANGED checkVars
    /\ UNCHANGED colorVars
    /\ UNCHANGED assignVars

NextWidget ==
    \/ OnApplyButton
    \/ OnUpdatePackages
    \/ OnCancel
    \/ FutureFinishes
    \/ PackageFutureFinished

SpecWidget == InitWidgetOnly /\ [][NextWidget]_vars

\* the worker thread runs every operation to its end, and the event loop of
\* the gui thread delivers every queued signal
FairSpecWidget ==
    /\ SpecWidget
    /\ WF_vars(FutureFinishes)
    /\ WF_vars(PackageFutureFinished)

(***************************************************************************)
(* Properties.                                                             *)
(***************************************************************************)
\* the diagnostics the handler that ran last appended
Added == SubSeq(messages, last.from + 1, Len(messages))

\* the frames of the traversal that stand for a pushed node
PushedFrames == {i \in 1..Len(stack) : stack[i].kind \in {"object", "function"}}

IsGrouped(node) ==
    /\ node.kind \in {"UiObjectDefinition", "UiObjectBinding"}
    /\ Len(node.typeId) = 1
    /\ node.typeId[1].named
    /\ isLower(node.typeId[1].name[1])

\* C1: the scope builder's depth follows the nesting of the nodes being
\* visited: while a traversal runs it is the depth at the start plus the
\* object elements and functions entered and not yet left, the grouped
\* early return leaves it as it was, and when operator() has returned it is
\* the depth at the start again.
C1_ScopeDepthBalanced ==
    /\ pc = "idle" => Len(nodes) = startDepth
    /\ pc = "walking" => Len(nodes) = startDepth + Cardinality(PushedFrames)
    /\ (pc = "walking" /\ last.op \in {"UiObjectDefinition", "UiObjectBinding"}
          /\ IsGrouped(last.node)) => Len(nodes) = last.depth

\* a run has returned for a document whose root holds a function and a
\* grouped property
C1_Witness ==
    /\ pc = "idle"
    /\ returned # <<>>
    /\ doc # <<>>
    /\ doc[1].typeId = <<Seg(N_Item)>>
    /\ Len(doc[1].members) = 2
    /\ doc[1].members[1].kind = "FunctionDeclaration"
    /\ IsGrouped(doc[1].members[2])

\* C2: two runs of the same Check with the same option on the same document
\* return the same list of diagnostics.
C2_RerunIdentical ==
    \A i, j \in 1..Len(returned) :
        returned[i].ignoreTypeErrors = returned[j].ignoreTypeErrors
            => returned[i].messages = returned[j].messages

\* two runs have returned for a document whose root has an unknown type and
\* they reported something
C2_Witness ==
    /\ Len(returned) = 2
    /\ returned[1].ignoreTypeErrors = returned[2].ignoreTypeErrors
    /\ Len(returned[1].messages) >= 2
    /\ doc[1].typeId = <<Seg(N_Foo)>>

\* C3: the traversal never dereferences a missing name: no document makes
\* it fault.
C3_NeverFaults == pc # "crashed"

\* C4: one call of the resolver appends at most one diagnostic.
C4_AtMostOneDiagnostic ==
    last.op = "checkScopeObjectMember" => Len(Added) <= 1

\* the first segment of the id resolved last finds a value that is no object
FirstSegmentNotObject ==
    /\ last.op = "checkScopeObjectMember"
    /\ Len(last.id) >= 2
    /\ last.id[1].named
    /\ last.id[1].name # <<>>
    /\ ~isUpper(last.id[1].name[1])
    /\ globalLookup(qmlScopeObjects, last.id[1].name) # NoValue
    /\ ~asObjectValue(globalLookup(qmlScopeObjects, last.id[1].name))

\* C5: a dotted id whose first segment resolves to a value that is no
\* object gets exactly one error, "'a' does not have members" at the first
\* segment, and the resolver returns no value.
C5_NoMembersOnce ==
    FirstSegmentNotObject =>
        /\ Added = <<errorMessage(identifierToken(last.id, 1, 1, 1),
                                  "'%1' does not have members", <<last.id[1].name>>)>>
        /\ last.value = NoValue

\* such an id of three segments has been resolved
C5_Witness == FirstSegmentNotObject /\ Len(last.id) = 3 /\ Len(Added) = 1

IsIdBinding(node) == node.kind = "UiScriptBinding" /\ node.qid = <<Seg(N_id)>>

IsExpression(node, kinds) ==
    node.stmt.kind = "ExpressionStatement" /\ node.stmt.expr.kind \in kinds

\* C6: an id binding whose right-hand side is no string literal: an
\* identifier starting with a lower-case letter gets no diagnostic, any
\* other identifier exactly the error "ids must be lower case", and any
\* other expression or statement exactly the error "expected id".
C6_IdBindingDiagnostics ==
    (/\ last.op = "UiScriptBinding"
     /\ IsIdBinding(last.node)
     /\ last.node.stmt.kind # "none"
     /\ ~IsExpression(last.node, {"StringLiteral"}))
    => /\ pc # "crashed"
       /\ Added = IF IsExpression(last.node, {"IdentifierExpression"})
                  THEN IF /\ last.node.stmt.expr.named
                          /\ last.node.stmt.expr.text # <<>>
                          /\ isLower(last.node.stmt.expr.text[1])
                       THEN <<>>
                       ELSE <<errorMessage(statementRange(line), "ids must be lower case", <<>>)>>
                  ELSE <<errorMessage(statementRange(line), "expected id", <<>>)>>

\* C7: an id binding whose right-hand side is a string literal gets the
\* warning about string literals, and after it the error "ids must be lower
\* case" exactly when the text is empty or does not start in lower case.
C7_StringLiteralId ==
    (/\ last.op = "UiScriptBinding"
     /\ IsIdBinding(last.node)
     /\ IsExpression(last.node, {"StringLiteral"}))
    => Added =
         <<warningMessage(statementRange(line),
                          "using string literals for ids is discouraged", <<>>)>>
         \o (IF last.node.stmt.expr.text # <<>> /\ isLower(last.node.stmt.expr.text[1])
             THEN <<>>
             ELSE <<errorMessage(statementRange(line), "ids must be lower case", <<>>)>>)

\* an id bound to a string literal in upper case has got both diagnostics
C7_Witness ==
    /\ last.op = "UiScriptBinding"
    /\ IsIdBinding(last.node)
    /\ IsExpression(last.node, {"StringLiteral"})
    /\ last.node.stmt.expr.text = <<"A">>
    /\ Len(Added) = 2

\* the property of the binding visited last resolves to a plain number
BoundToPlainNumber ==
    /\ last.op = "UiScriptBinding"
    /\ pc # "crashed"
    /\ last.node.qid[1].named
    /\ last.node.stmt.kind = "ExpressionStatement"
    /\ checkScopeObjectMember(qmlScopeObjects, qmlTypes, last.node.qid, line, 1).value
           = NumberValue

\* C8: a binding of a plain number property gets exactly one diagnostic,
\* the error "numerical value expected" over the expression statement, when
\* the expression is the literal true or false, and none otherwise.
C8_NumericalValueExpected ==
    BoundToPlainNumber =>
        Added = IF IsExpression(last.node, {"TrueLiteral", "FalseLiteral"})
                THEN <<errorMessage(locationFromRange(firstSourceLocation(line),
                                                      lastSourceLocation(line)),
                                    "numerical value expected", <<>>)>>
                ELSE <<>>

\* a dotted number property has been bound to the literal false
C8_Witness ==
    /\ BoundToPlainNumber
    /\ Len(last.node.qid) = 3
    /\ IsExpression(last.node, {"FalseLiteral"})
    /\ Len(Added) = 1

\* the 9-character alpha form: '#', an alpha that toInt reads, a valid name
AlphaName(str) == <<"#">> \o right(str, 6)
TakesAlphaPath(str) ==
    /\ Len(str) = 9
    /\ str[1] = "#"
    /\ toInt16(mid(str, 1, 2)).ok
    /\ isValidColor(AlphaName(str))

\* C9: in the 9-character alpha form the result is the colour of the
\* 7-character name with the parsed alpha, a value in 0..255.
C9_AlphaIsParsedValue ==
    (color.done /\ TakesAlphaPath(colorString)) =>
        /\ color.result.valid
        /\ color.result.rgb = setNamedColor(AlphaName(colorString)).rgb
        /\ color.result.alpha = toInt16(mid(colorString, 1, 2)).value
        /\ toInt16(mid(colorString, 1, 2)).value \in 0..255

\* C10: every other string gives the colour it names as a whole, and the
\* invalid colour when it names none.
C10_WholeStringOtherwise ==
    (color.done /\ ~TakesAlphaPath(colorString)) =>
        color.result = IF isValidColor(colorString)
                       THEN setNamedColor(colorString)
                       ELSE InvalidColor

\* a string of another length has given a valid colour
C10_Witness ==
    /\ color.done
    /\ Len(colorString) = 7
    /\ color.result.valid

\* the property of the binding visited last resolved, and the evaluator gave
\* no value for its expression
ResolvedButNotEvaluated ==
    /\ last.op = "UiScriptBinding"
    /\ last.node.qid[1].named
    /\ ~IsIdBinding(last.node)
    /\ last.node.stmt.kind = "ExpressionStatement"
    /\ last.node.stmt.rhs = NoValue
    /\ checkScopeObjectMember(qmlScopeObjects, qmlTypes, last.node.qid, line, 1).value
           # NoValue

\* C11: a binding whose property resolves and whose expression evaluates to
\* no value gets no diagnostic and makes no fault, whatever the variant of
\* the declared value.
C11_NoValueSkipsCheck ==
    ResolvedButNotEvaluated => (pc # "crashed" /\ Added = <<>>)

IsUnknownType(m) == m.message = "unknown type"
IsNotUnknownType(m) == ~IsUnknownType(m)

\* C12: a run that suppresses unknown-type errors returns what a run that
\* reports them returns with exactly the "unknown type" errors taken out,
\* in the same order.
C12_SuppressionRemovesOnlyUnknownType ==
    \A i, j \in 1..Len(returned) :
        (returned[i].ignoreTypeErrors /\ ~returned[j].ignoreTypeErrors)
            => returned[i].messages = SelectSeq(returned[j].messages, IsNotUnknownType)

\* a run of each kind has returned; the reporting run gave an unknown-type
\* error, and another diagnostic that the suppressing run gave too
C12_Witness ==
    /\ Len(returned) = 2
    /\ ~returned[1].ignoreTypeErrors
    /\ returned[2].ignoreTypeErrors
    /\ \E k \in 1..Len(returned[1].messages) : IsUnknownType(returned[1].messages[k])
    /\ returned[2].messages # <<>>

ResolverMessages ==
    {"'%1' is not a valid property name", "'%1' does not have members",
     "'%1' is not a member of '%2'"}

\* the handler that ran last visited a binding that is a direct member of an
\* element whose type is unknown
BindingInUnknownType ==
    /\ last.op \in {"UiScriptBinding", "UiArrayBinding", "UiObjectBinding"}
    /\ last.depth >= 1
    /\ nodes[last.depth].kind = "qml"
    /\ nodes[last.depth].obj = "Unknown"

\* the diagnostics the resolver gave for the qualified id of that binding
QualifiedIdDiagnostics ==
    SelectSeq(Added, LAMBDA m : m.message \in ResolverMessages /\ m.loc.startColumn < 30)

\* C13: in an element of unknown type the scope objects stay cleared for all
\* its members, so no binding that is a direct member gets a diagnostic of
\* the resolver, also after a nested object has been entered and left.
C13_UnknownTypeSilencesMembers ==
    BindingInUnknownType => (last.scope = <<>> /\ QualifiedIdDiagnostics = <<>>)

\* the resolver ran last, on an id whose first segment has a name that is
\* looked up (not the lone id)
LookedUp ==
    /\ last.op = "checkScopeObjectMember"
    /\ qmlScopeObjects # <<>>
    /\ last.id # <<>>
    /\ last.id[1].named
    /\ last.id # <<Seg(N_id)>>

\* the positions of the scope objects that have a member of the first name
Having(scopeObjects) ==
    {i \in 1..Len(scopeObjects) : lookupMember(scopeObjects[i], last.id[1].name) # NoValue}

Latest(positions) == CHOOSE i \in positions : \A k \in positions : k <= i

NotValidPropertyName ==
    errorMessage(identifierToken(last.id, 1, 1, 1), "'%1' is not a valid property name",
                 <<last.id[1].name>>)

\* C14: for a first segment not in upper case the resolver takes the member
\* of the last scope object that has one of that name, and gives the error
\* "is not a valid property name" exactly when no scope object has one.
C14_LastScopeObjectShadows ==
    (LookedUp /\ ~isUpper(last.id[1].name[1])) =>
        LET having == Having(qmlScopeObjects)
        IN  /\ (Len(last.id) = 1 /\ having # {}) =>
                   last.value = lookupMember(qmlScopeObjects[Latest(having)], last.id[1].name)
            /\ (Len(last.id) = 1 /\ having = {}) => last.value = NoValue
            /\ having = {} => (Added # <<>> /\ Added[1] = NotValidPropertyName)
            /\ having # {} =>
                   \A k \in 1..Len(Added) :
                       Added[k].message # "'%1' is not a valid property name"

\* x has been resolved where an earlier scope object gives it as a number
\* and a later one as a string
C14_Witness ==
    /\ LookedUp
    /\ last.id = <<Seg(N_x)>>
    /\ qmlScopeObjects = <<"Item", "Other">>
    /\ last.value = StringValue

\* the scope objects the lookup of an attached property searches
AttachedScopeObjects ==
    IF qmlTypes # NoObject THEN Append(qmlScopeObjects, qmlTypes) ELSE qmlScopeObjects

\* C15: for a first segment in upper case the resolver returns no value,
\* gives the error "is not a valid property name" exactly when neither a
\* scope object nor the attached types have the member and nothing else
\* whatever segments follow, and leaves the scope objects as they were.
C15_AttachedProperty ==
    (LookedUp /\ isUpper(last.id[1].name[1])) =>
        /\ last.value = NoValue
        /\ Added = IF Having(AttachedScopeObjects) = {}
                   THEN <<NotValidPropertyName>>
                   ELSE <<>>
        /\ qmlScopeObjects = last.scope

\* an attached property found only in the attached types has been resolved
\* with a segment after it
C15_Witness ==
    /\ LookedUp
    /\ isUpper(last.id[1].name[1])
    /\ Len(last.id) >= 2
    /\ Having(qmlScopeObjects) = {}
    /\ Having(AttachedScopeObjects) # {}
    /\ Added = <<>>

\* the resolver ran last and said nothing
Silent == last.value = NoValue /\ Added = <<>>

RECURSIVE ObjectPrefix(_, _, _)
\* the segments 1..k of id name, one after another, members that are objects
ObjectPrefix(id, k, value) ==
    /\ asObjectValue(value)
    /\ k < Len(id) =>
          /\ id[k + 1].named
          /\ ObjectPrefix(id, k + 1, lookupMember(value.obj, id[k + 1].name))

\* id has a segment without a name after a prefix that names objects
MissingNameAfterObjects(id) ==
    /\ id[1].named
    /\ ~isUpper(id[1].name[1])
    /\ Having(qmlScopeObjects) # {}
    /\ \E k \in 1..(Len(id) - 1) :
          /\ ~id[k + 1].named
          /\ ObjectPrefix(SubSeq(id, 1, k), 1,
                          lookupMember(qmlScopeObjects[Latest(Having(qmlScopeObjects))],
                                       id[1].name))

\* C16: the resolver returns no value and gives no diagnostic when there
\* are no scope objects, when the id is absent or its first name missing,
\* when the id is the lone segment id, and when a later name is missing
\* after a prefix of objects; a dotted id that starts with id is looked up
\* like any other.
C16_SilentCases ==
    last.op = "checkScopeObjectMember" =>
        /\ qmlScopeObjects = <<>> => Silent
        /\ last.id = <<>> => Silent
        /\ (last.id # <<>> /\ ~last.id[1].named) => Silent
        /\ last.id = <<Seg(N_id)>> => Silent
        /\ (LookedUp /\ MissingNameAfterObjects(last.id)) => Silent
        /\ (LookedUp /\ Len(last.id) >= 2 /\ last.id[1].name = N_id
              /\ Having(qmlScopeObjects) = {})
             => (Added # <<>> /\ Added[1] = NotValidPropertyName)

\* an id whose third name is missing after two objects has been resolved
C16_Witness ==
    /\ LookedUp
    /\ Len(last.id) = 3
    /\ last.id[2].named
    /\ MissingNameAfterObjects(last.id)
    /\ Silent

\* an object element has been visited without a fault
ObjectVisited ==
    /\ last.op \in {"UiObjectDefinition", "UiObjectBinding"}
    /\ pc # "crashed"

\* the diagnostics for the qualified id of a UiObjectBinding
QualifyingNameDiagnostics ==
    IF last.op = "UiObjectBinding"
    THEN checkScopeObjectMember(last.scope, qmlTypes, last.node.qid, line, 1).msgs
    ELSE <<>>

\* the traversal went into the members of the element visited last
MembersEntered ==
    /\ Len(stack) = last.frames + 1
    /\ Top.kind = "object"
    /\ Top.todo = last.node.members

\* C17: for an element whose type name is one segment in lower case the
\* resolver is called once on the type name and that is all: no frame is
\* pushed, no type is looked up and the members are not visited.  A dotted
\* type name in lower case is a type: it is pushed and its members visited.
C17_GroupedProperty ==
    /\ (ObjectVisited /\ IsGrouped(last.node)) =>
          /\ Added = QualifyingNameDiagnostics
                       \o checkScopeObjectMember(last.scope, qmlTypes, last.node.typeId,
                                                 line, 30).msgs
          /\ \A k \in 1..Len(Added) : ~IsUnknownType(Added[k])
          /\ Len(nodes) = last.depth
          /\ qmlScopeObjects = last.scope
          /\ Len(stack) <= last.frames
    /\ (ObjectVisited /\ Len(last.node.typeId) >= 2 /\ isLower(last.node.typeId[1].name[1])) =>
          /\ Len(nodes) = last.depth + 1
          /\ MembersEntered

\* a grouped property that is no member, with a binding inside, has been
\* visited
C17_Witness ==
    /\ ObjectVisited
    /\ IsGrouped(last.node)
    /\ last.node.members # <<>>
    /\ Len(Added) = 1
    /\ Added[1].message = "'%1' is not a valid property name"

\* C18: for a UiObjectBinding the qualified id is resolved first, so its
\* diagnostics stand ahead of the element's own, and whatever the outcome
\* an element that is no grouped property is pushed, its type looked up and
\* its members visited.
C18_QualifiedIdFirst ==
    (last.op = "UiObjectBinding" /\ pc # "crashed") =>
        LET n == Len(QualifyingNameDiagnostics)
        IN  /\ n <= Len(Added)
            /\ SubSeq(Added, 1, n) = QualifyingNameDiagnostics
            /\ \A k \in 1..Len(Added) : IsUnknownType(Added[k]) => k = n + 1
            /\ ~IsGrouped(last.node) =>
                  /\ Len(nodes) = last.depth + 1
                  /\ MembersEntered
                  /\ Len(Added) = IF lookupType(last.node.typeId) = NoObject
                                     /\ ~ignoreTypeErrors
                                  THEN n + 1 ELSE n

\* the qualified id of a UiObjectBinding did not resolve, its type is
\* unknown, and the traversal stands at its members
C18_Witness ==
    /\ last.op = "UiObjectBinding"
    /\ pc # "crashed"
    /\ Len(Added) = 2
    /\ Added[1].message = "'%1' is not a valid property name"
    /\ IsUnknownType(Added[2])
    /\ MembersEntered
    /\ Top.todo # <<>>

\* C19: a function's formals are accepted at the depth of the enclosing
\* scope, its body is traversed one deeper, the depth is back when the
\* visit ends, and the visit returns false, so the traversal has one frame
\* for the function's children and goes through them once.
C19_FunctionScope ==
    /\ (pc = "walking" /\ last.op = "FunctionExpression") =>
          /\ last.formalsDepth = last.depth
          /\ Len(nodes) = last.depth + 1
          /\ ~last.ret
          /\ Len(stack) = last.frames + 1
          /\ Top = Frame("function", last.node.members)
    /\ (pc = "walking" /\ stack # <<>> /\ Top.kind = "function") =>
          Len(nodes) = startDepth + Cardinality(PushedFrames)
    /\ (pc = "walking" /\ last.op = "leave function") =>
          /\ Len(nodes) = last.depth - 1
          /\ Len(nodes) = startDepth + Cardinality(PushedFrames)
          /\ Len(stack) < last.frames

\* a function with a formal and with a function in its body has been left
C19_Witness ==
    /\ pc = "walking"
    /\ last.op = "leave function"
    /\ last.depth = 2
    /\ line = 3
    /\ doc[1].members # <<>>
    /\ doc[1].members[1].kind = "FunctionDeclaration"
    /\ doc[1].members[1].formals = 1
    /\ doc[1].members[1].members # <<>>
    /\ stack # <<>>

\* The rules of the compatibility check, in order, for each variant of the
\* declared value: when a rule applies, and the diagnostic it gives ("" for
\* none).
Rule(applies, kind, message) == [applies |-> applies, kind |-> kind, message |-> message]

IsNumberSyntax(ast) ==
    \/ ast.kind = "NumericLiteral"
    \/ (ast.kind = "UnaryMinusExpression" /\ ast.operand = "NumericLiteral")
IsBooleanSyntax(ast) == ast.kind \in {"TrueLiteral", "FalseLiteral"}
IsStringSyntax(ast) == ast.kind = "StringLiteral"

StringRules(ast) ==
    <<Rule(IsNumberSyntax(ast) \/ IsBooleanSyntax(ast), "Error", "string value expected")>>

CompatibilityRules(lhsValue, rhsValue, ast) ==
    CASE lhsValue.k = "Enum" ->
           <<Rule(IsStringSyntax(ast) /\ ast.text \notin lhsValue.keys,
                  "Error", "unknown value for enum"),
             Rule(IsStringSyntax(ast), "Error", ""),
             Rule(asUndefinedValue(rhsValue), "Warning", "value might be 'undefined'"),
             Rule(~asStringValue(rhsValue) /\ ~asNumberValue(rhsValue),
                  "Error", "enum value is not a string or number")>>
      [] lhsValue.k = "Number" ->
           <<Rule(IsBooleanSyntax(ast), "Error", "numerical value expected")>>
      [] lhsValue.k = "Boolean" ->
           <<Rule(IsStringSyntax(ast) \/ IsNumberSyntax(ast), "Error", "boolean value expected")>>
      [] lhsValue.k = "String" -> StringRules(ast)
      [] lhsValue.k = "Url" ->
           StringRules(ast)
           \o <<Rule(IsStringSyntax(ast) /\ ast.url = "invalid" /\ ast.text # <<>>,
                     "Error", "not a valid url"),
                Rule(IsStringSyntax(ast) /\ ast.url = "missing",
                     "Error", "file or directory does not exist")>>
      [] lhsValue.k = "Color" ->
           <<Rule(IsStringSyntax(ast) /\ ~toQColor(ast.text).valid, "Error", "not a valid color"),
             Rule(IsStringSyntax(ast), "Error", "")>>
           \o StringRules(ast)
      [] lhsValue.k = "AnchorLine" ->
           <<Rule(~(asAnchorLineValue(rhsValue) \/ asUndefinedValue(rhsValue)),
                  "Error", "expected anchor line")>>
      [] OTHER -> <<>>

\* what the first rule that applies gives, the empty message when none does
FirstRule(rules) ==
    LET matching == {i \in 1..Len(rules) : rules[i].applies}
    IN  IF matching = {} THEN Rule(TRUE, "Error", "")
        ELSE rules[CHOOSE i \in matching : \A k \in matching : i <= k]

\* a call of the compatibility check has returned
AssignmentChecked == assignment.done /\ ~assignment.fault

\* C20: a call of the compatibility check returns the one diagnostic of the
\* first rule of the declared value's variant that applies, and the empty
\* message when no rule applies or the declared value is absent.
C20_FirstRuleWins ==
    AssignmentChecked =>
        LET rule == FirstRule(CompatibilityRules(assignment.lhsValue, assignment.rhsValue,
                                                 assignment.ast))
        IN  /\ assignment.message.message = rule.message
            /\ rule.message # "" => assignment.message.kind = rule.kind
            /\ assignment.message.loc = statementRange(1)
            /\ assignment.lhsValue = NoValue => assignment.message.message = ""

\* an enum has been given one of its keys as a string literal while the
\* value evaluated is undefined: the rule for string literals applies and
\* the later rule for undefined does not warn
C20_Witness ==
    /\ AssignmentChecked
    /\ assignment.lhsValue.k = "Enum"
    /\ IsStringSyntax(assignment.ast)
    /\ assignment.ast.text \in assignment.lhsValue.keys
    /\ asUndefinedValue(assignment.rhsValue)
    /\ assignment.message.message = ""

\* a call of the compatibility check for an enum has returned
EnumChecked == AssignmentChecked /\ assignment.lhsValue.k = "Enum"

\* C21: for an enum the first applicable rule decides: a string literal
\* gives "unknown value for enum" exactly when its text is no key and
\* nothing otherwise; else an undefined value gives the warning; else a
\* value that is neither string nor number gives "enum value is not a
\* string or number"; the rule for plain numbers is never applied.
C21_EnumRules ==
    EnumChecked =>
        LET m   == assignment.message
            rhs == assignment.rhsValue
        IN  /\ IF assignment.ast.kind = "StringLiteral"
               THEN /\ m.kind = "Error"
                    /\ m.message = IF assignment.ast.text \in assignment.lhsValue.keys
                                   THEN "" ELSE "unknown value for enum"
               ELSE IF rhs = UndefinedValue
               THEN m.kind = "Warning" /\ m.message = "value might be 'undefined'"
               ELSE IF rhs \notin {StringValue, UrlValue, NumberValue}
               THEN m.kind = "Error" /\ m.message = "enum value is not a string or number"
               ELSE m.message = ""
            /\ m.message # "numerical value expected"

\* an enum has been bound to the literal true where the value evaluated is
\* a number: no rule applies
C21_Witness ==
    /\ EnumChecked
    /\ assignment.ast.kind = "TrueLiteral"
    /\ assignment.rhsValue = NumberValue
    /\ assignment.message.message = ""

\* a call of the compatibility check for a colour has returned
ColorChecked == AssignmentChecked /\ assignment.lhsValue.k = "Color"

\* C22: for a colour a string literal gives "not a valid color" exactly
\* when toQColor of its text is invalid; any other node gets the rule for
\* plain strings only, "string value expected" for a numeric, negated
\* numeric or boolean literal; nothing is ever said about urls or files.
C22_ColorRules ==
    ColorChecked =>
        LET ast == assignment.ast
        IN  /\ assignment.message.kind = "Error"
            /\ assignment.message.message =
                  IF ast.kind = "StringLiteral"
                  THEN IF toQColor(ast.text).valid THEN "" ELSE "not a valid color"
                  ELSE IF \/ ast.kind \in {"NumericLiteral", "TrueLiteral", "FalseLiteral"}
                          \/ (ast.kind = "UnaryMinusExpression"
                                /\ ast.operand = "NumericLiteral")
                       THEN "string value expected"
                       ELSE ""
            /\ assignment.message.message
                  \notin {"not a valid url", "file or directory does not exist"}

\* a colour has been given the name of a colour that, read as a url, is a
\* file that does not exist
C22_Witness ==
    /\ ColorChecked
    /\ assignment.ast.kind = "StringLiteral"
    /\ assignment.ast.url = "missing"
    /\ toQColor(assignment.ast.text).valid
    /\ assignment.message.message = ""

\* a script binding other than that of the lone id has been visited
PropertyBound ==
    /\ last.op = "UiScriptBinding"
    /\ last.node.qid[1].named
    /\ ~IsIdBinding(last.node)

PropertyResolved ==
    checkScopeObjectMember(last.scope, qmlTypes, last.node.qid, line, 1).value # NoValue

\* C23: for a script binding that is not that of the lone id the
\* compatibility check is called exactly when the resolver returned a value
\* and the right-hand side is an expression statement, and the traversal
\* goes on into the binding's children whatever was reported.
C23_CheckedWhenResolved ==
    PropertyBound =>
        /\ last.assigned <=> (PropertyResolved /\ last.node.stmt.kind = "ExpressionStatement")
        /\ ~last.assigned =>
              Added = checkScopeObjectMember(last.scope, qmlTypes, last.node.qid, line, 1).msgs
        /\ pc # "crashed" =>
              /\ last.ret
              /\ last.node.members # <<>> =>
                    /\ Len(stack) = last.frames + 1
                    /\ Top = Frame("statement", last.node.members)

\* a property that resolves has been bound to an expression and got a
\* diagnostic of the compatibility check
C23_Witness ==
    /\ PropertyBound
    /\ pc # "crashed"
    /\ PropertyResolved
    /\ last.assigned
    /\ Len(Added) = 1
    /\ Added[1].message = "boolean value expected"
    /\ last.ret

\* the number of times signal is in the first n signals emitted
RECURSIVE Emitted(_, _)
Emitted(signal, n) ==
    IF n = 0 THEN 0
    ELSE Emitted(signal, n - 1) + (IF signals[n] = signal THEN 1 ELSE 0)

\* the slot that ran last started an operation of the sdk manager
OperationStarted == slot.added # 0

C25_FinishedMatchesUpdating ==
    \A n \in 1..Len(signals) :
        Emitted("updatingSdkFinished", n) <= Emitted("updatingSdk", n)

\* an updatingSdk that no updatingSdkFinished has followed yet
Unmatched ==
    Emitted("updatingSdk", Len(signals)) > Emitted("updatingSdkFinished", Len(signals))

\* a watched operation is in the end reported and the listing shown again
WatchedOperationReported == (m_currentOperation # 0) ~> (view = "PackageListing")

\* an updatingSdk is in the end followed by an updatingSdkFinished
UpdatingLeadsToFinished == Unmatched ~> ~Unmatched

=============================================================================
